---- MODULE Spec2Model ----
(***************************************************************************)
(* A model of the zen3geo datapipes (src/zen3geo/datapipes).  Each adapter *)
(* is an iterable object built over one or two upstream datapipes; its     *)
(* __iter__ is a generator that the consumer advances with next().         *)
(*                                                                         *)
(* A behaviour of the model is the life of one adapter instance: the       *)
(* upstream datapipes exist (Init), the adapter is constructed, and the    *)
(* consumer opens iteration passes and pulls items.  A generator body is   *)
(* modelled statement by statement: pc is the statement the generator is   *)
(* at, frame holds its local variables.                                    *)
(*                                                                         *)
(* An upstream datapipe is a lazy sequence: the attributes of its i-th     *)
(* item become known when the item is first pulled, and later passes over  *)
(* the same datapipe hand out the same objects again (by reference).       *)
(***************************************************************************)
EXTENDS Integers, Sequences, FiniteSets, TLC

VARIABLES
    adapter,          \* the class of the adapter instance under study
    source_datapipe,  \* self.source_datapipe (first positional upstream)
    vector_datapipe,  \* self.vector_datapipe of DatashaderRasterizer
    mask_datapipe,    \* self.mask_datapipe of GeoPandasRectangleClipper
    out,              \* self.out of RasterioRasterizer
    agg,              \* self.agg of DatashaderRasterizer
    out_shape,        \* self.out_shape of RasterioRasterizer
    transform,        \* self.transform of RasterioRasterizer
    debug,            \* __debug__: assert statements are executed
    kwargs,           \* self.kwargs
    engine,           \* self.engine of XpySTACAssetReader
    missing,          \* the optional libraries that are not installed
    eager,            \* annotations are evaluated when a def statement runs
    module,           \* import of the adapter's module: its state and error
    length,           \* what the len() calls that iterate an upstream returned
    obj,              \* construction: "new", "built" or "failed"
    ctor_error,       \* the exception the constructor raised, or NoError
    passes,           \* number of iter() calls made on the adapter
    pc,               \* position of the live generator
    frame,            \* local variables of the live generator
    requested,        \* next() calls made on the live generator
    delivered,        \* items the live generator has yielded, in order
    error,            \* the exception that ended the live generator, or NoError
    stops,            \* StopIteration results seen after the generator ended
    calls             \* external-library calls made by the live generator

\* The upstream datapipes.
upstream == <<source_datapipe, vector_datapipe, mask_datapipe, out>>

\* The arguments and the environment, fixed for the life of the instance.
args == <<adapter, agg, out_shape, debug, kwargs, engine, missing, eager>>

\* The outcome of the constructor.
ctor == <<obj, ctor_error>>

\* The live generator as the consumer sees it.
consumer == <<passes, requested, delivered, stops>>

vars == <<upstream, args, module, length, transform, ctor, consumer, pc, frame,
          error, calls>>

(***************************************************************************)
(* Bounds of the model.                                                    *)
(***************************************************************************)
MaxLen == 2      \* longest upstream datapipe
MaxPasses == 2   \* iteration passes opened on one adapter
MaxStops == 1    \* next() calls made after a generator has ended
MaxItems == 2    \* sub-items (STAC items, chips) one input is split into
MaxLens == 1     \* len() calls that iterate an upstream
MaxOthers == 1   \* passes other instances open on a shared upstream

(***************************************************************************)
(* Values.                                                                 *)
(***************************************************************************)
NoAttr == "<no attribute>"     \* the object has no such attribute
None == "None"
CRSs == {"EPSG:4326", "EPSG:32631"}
CanvasCRSs == {NoAttr, None} \cup CRSs
VectorCRSs == {NoAttr, None} \cup CRSs
RioCRSs == {None} \cup CRSs    \* crs of a geopandas or rioxarray object
ShapeCRSs == {NoAttr, None, "EPSG:4326"}   \* crs of the shapes given to rasterize

\* shapely geometry types a vector layer can be made of; "Mixed" is a layer
\* holding more than one base type.
GeomTypes == {"Point", "MultiPoint", "LineString", "MultiLineString",
              "Polygon", "MultiPolygon", "GeometryCollection", "Mixed"}

Aggs == {None, "any", "count"}

\* **kwargs given to the constructor: none, or one keyword option.
NoKwargs == "{}"
Kwargs == {NoKwargs, "{option: value}"}

\* rasterio.transform.IDENTITY, the default of the transform argument, and
\* an affine transform given by the caller.
IDENTITY == "IDENTITY"
Transforms == {IDENTITY, "Affine(given)"}

\* Every object of the model is a record of this shape; fields that do not
\* apply to a type hold "-" (strings) or 0 / <<>>.  new tells an object made
\* by the adapter from one an upstream datapipe handed out; op is the
\* operation that produced the object's data and of the items it was made
\* from.
Object(type, id, crs, geom, dtype, op, of) ==
    [type |-> type, id |-> id, crs |-> crs, geom |-> geom,
     dtype |-> dtype, op |-> op, of |-> of,
     transform |-> "-", readable |-> TRUE, new |-> FALSE]

Unbound == Object("<unbound>", 0, NoAttr, "-", "-", "-", <<>>)

Canvas(i, crs) == Object("Canvas", i, crs, "-", "-", "-", <<>>)

GeoDataFrame(i, crs, geom) == Object("GeoDataFrame", i, crs, geom, "-", "-", <<>>)

\* An xarray object with rioxarray accessors: its rio.crs and rio.transform().
DataArray(i, crs) ==
    [Object("DataArray", i, crs, "-", "-", "-", <<>>) EXCEPT
        !.transform = "Affine(" \o ToString(i) \o ")"]

\* A numpy array: no rio accessor, no crs.
ndarray(i) == Object("ndarray", i, NoAttr, "-", "-", "-", <<>>)

\* The None held by the default out datapipe, IterableWrapper([None]), and
\* the None used as fill_value.
NoneObject == Object("NoneType", 0, NoAttr, "-", "-", "-", <<>>)

\* A file name or URL, readable by the wrapped library or not.
Locator(i, readable) ==
    [Object("str", i, NoAttr, "-", "-", "-", <<>>) EXCEPT !.readable = readable]

\* An object of the given type that the wrapped library call accepts
\* (readable) or raises on.
Input(type, i, readable) == [Locator(i, readable) EXCEPT !.type = type]

\* A pystac_client.ItemSearch whose items() enumerates `items` items and
\* whose matched() reports `matched`.
ItemSearch(i, items, matched) ==
    [items |-> items, matched |-> matched]
        @@ Object("pystac_client.ItemSearch", i, NoAttr, "-", "-", "-", <<>>)

\* An xarray object that xbatcher cuts into `chips` chips; name is the
\* DataArray's name (None when unnamed), a Dataset has no such attribute.
Chippable(i, name, chips) ==
    [name |-> name, chips |-> chips]
        @@ Object(IF name = NoAttr THEN "xarray.Dataset" ELSE "xarray.DataArray",
                  i, NoAttr, "-", "-", "-", <<>>)

\* An xarray object as rioxarray sees it: the names of its spatial
\* dimensions (spatial FALSE: none can be identified), the number of
\* coordinates along each, its bounds (xmin, ymin, xmax, ymax) and its
\* rio.crs.
Grid(i, crs, spatial) ==
    [spatial |-> spatial, x_dim |-> "x", y_dim |-> "y",
     sizes |-> [x |-> i + 1, y |-> i + 3],
     bounds |-> <<i, 0 - i, i + 10, i + 20>>]
        @@ Object("xarray.DataArray", i, crs, "-", "-", "-", <<>>)

\* The objects the i-th item of a datapipe of each kind can be.
Kinds(kind, i) ==
    CASE kind = "canvas" -> {Canvas(i, c) : c \in CanvasCRSs}
      [] kind = "vector" -> {GeoDataFrame(i, c, g) : c \in VectorCRSs, g \in GeomTypes}
      [] kind = "layer" -> {GeoDataFrame(i, c, "Polygon") : c \in RioCRSs}
      [] kind = "shapes" -> {GeoDataFrame(i, c, "Polygon") : c \in ShapeCRSs}
      [] kind = "mask" -> {DataArray(i, c) : c \in RioCRSs}
      [] kind = "template" -> {DataArray(i, c) : c \in RioCRSs} \cup {ndarray(i)}
      [] kind = "none" -> {NoneObject}
      [] kind = "locator" -> {Locator(i, r) : r \in BOOLEAN}
      [] kind = "stream" -> {Input("io.BytesIO", i, r) : r \in BOOLEAN}
      [] kind = "asset" -> {Input("pystac.Asset", i, r) : r \in BOOLEAN}
      [] kind = "query" -> {Input("dict", i, r) : r \in BOOLEAN}
      [] kind = "stac_items" -> {Input("pystac.Item", i, r) : r \in BOOLEAN}
      [] kind = "search" ->
            {ItemSearch(i, n, n) : n \in {0, 1, MaxItems}}
               \cup {ItemSearch(i, MaxItems, MaxItems + 1)}
      [] kind = "chippable" ->
            {Chippable(i, NoAttr, n) : n \in 0..MaxItems}
               \cup {Chippable(i, name, 1) : name \in {None, "z"}}
      [] kind = "grid" ->
            {Grid(i, c, TRUE) : c \in {None, "EPSG:4326"}} \cup {Grid(i, None, FALSE)}
      [] kind = "datacube" -> {Input("xarray.DataArray", i, r) : r \in BOOLEAN}

NoError == [type |-> "-", msg |-> "-", about |-> <<>>]

Raise(type, msg, about) == [type |-> type, msg |-> msg, about |-> about]

(***************************************************************************)
(* Upstream datapipes.  kind is the kind of item the datapipe holds, len   *)
(* what len() reports, items the objects handed out so far (in their       *)
(* current state), orig the same objects as they were when first handed    *)
(* out, pulls the number of items handed out over all passes, iters the    *)
(* number of passes opened over the datapipe.  sized tells whether len()   *)
(* reports a length at all, invalid whether the iterator the adapter's     *)
(* pass holds has been invalidated by an iterator created after it, and    *)
(* others counts the iterators other instances have created.               *)
(***************************************************************************)
DataPipe(kind, n) ==
    [kind |-> kind, len |-> n, items |-> <<>>, orig |-> <<>>, pulls |-> 0, iters |-> 0,
     sized |-> TRUE, invalid |-> FALSE, others |-> 0]

\* A datapipe whose class defines no __len__: len(dp) raises TypeError.
Unsized(dp) == [dp EXCEPT !.sized = FALSE]

\* What len(dp) raises on such a datapipe; name is the attribute holding dp.
NoLength(name) == Raise("TypeError", "no len()", <<name>>)

\* What next() raises on an iterator of dp that a later iterator of dp has
\* invalidated.
Invalidated(name) == Raise("RuntimeError", "This iterator has been invalidated", <<name>>)

\* An upstream the adapter under study does not have.
NoDataPipe == DataPipe("-", 0)

\* The objects the i-th next() of a pass over dp can return.
NextItems(dp, i) ==
    IF i <= Len(dp.items) THEN {dp.items[i]} ELSE Kinds(dp.kind, i)

\* dp after its i-th item, x, has been handed out.
Pulled(dp, i, x) ==
    IF i <= Len(dp.items)
    THEN [dp EXCEPT !.pulls = @ + 1]
    ELSE [dp EXCEPT !.pulls = @ + 1, !.items = Append(@, x), !.orig = Append(@, x)]

\* dp after a new pass over it has been opened.
Opened(dp) == [dp EXCEPT !.iters = @ + 1, !.invalid = FALSE]

\* dp after object x, if it is an item of dp, has been modified in place to y.
Mutated(dp, x, y) ==
    IF ~x.new /\ x.id \in 1..Len(dp.items) /\ dp.items[x.id] = x
    THEN [dp EXCEPT !.items[x.id] = y]
    ELSE dp

\* One external-library call (or property read) made by a generator: the
\* function, the next() call it served, the first item of the pair in hand
\* (canvas, mask, template) and the argument.
Call(fn, c, x) == [fn |-> fn, pull |-> requested, canvas |-> c, arg |-> x]

\* A library call given one object and keyword options.
CallWith(fn, x, kw) ==
    [fn |-> fn, pull |-> requested, canvas |-> Unbound, arg |-> x, kwargs |-> kw]

\* The object a library call returns for the input x.
Returned(type, fn, x) ==
    [Object(type, 0, NoAttr, "-", "-", fn, <<x.id>>) EXCEPT !.new = TRUE]

\* StreamWrapper(x)
StreamWrapper(x) == [x EXCEPT !.type = "StreamWrapper"]

\* One round of a zip_longest datapipe over the datapipes a and b, whose
\* iterators have handed out i and j items: whether each has a next item,
\* and the objects each slot of the tuple can hold (fill_value in place of an
\* exhausted iterator).  The datapipe ends when both are exhausted.
ZipLongest(a, i, b, j, fill_value) ==
    [more_a |-> i < a.len,
     more_b |-> j < b.len,
     first |-> IF i < a.len THEN NextItems(a, i + 1) ELSE {fill_value},
     second |-> IF j < b.len THEN NextItems(b, j + 1) ELSE {fill_value}]

(***************************************************************************)
(* Optional libraries.  Each module imports its optional libraries in a    *)
(* try block and binds the name to None on ImportError; each constructor   *)
(* begins with a test of that name.                                        *)
(***************************************************************************)
\* The libraries the module of an adapter imports inside try blocks.
Libs(a) ==
    CASE a \in {"DatashaderRasterizer", "XarrayCanvas"} -> {"datashader", "spatialpandas"}
      [] a = "GeoPandasRectangleClipper" -> {"geopandas"}
      [] a = "PyogrioReader" -> {"pyogrio"}
      [] a = "LaspyReader" -> {"laspy"}
      [] a = "PySTACItemReader" -> {"pystac"}
      [] a = "XpySTACAssetReader" -> {"pystac", "xpystac"}
      [] a \in {"PySTACAPISearcher", "PySTACAPIItemLister"} -> {"pystac_client"}
      [] a \in {"StackSTACStacker", "StackSTACMosaicker"} -> {"stackstac"}
      [] a = "XbatcherSlicer" -> {"xbatcher"}
      [] OTHER -> {}

\* The module-level names bound to None by the except ImportError clauses.
\* xpystac.py imports pystac and xpystac in one try block and binds both
\* names to None when either import fails.
Nones ==
    IF adapter = "XpySTACAssetReader"
    THEN IF missing = {} THEN {} ELSE {"pystac", "xpystac"}
    ELSE missing

\* raise ModuleNotFoundError("Package `lib` is required to be installed to
\* use this datapipe. Please use `pip install lib` ...")
ModuleNotFoundError(lib) ==
    Raise("ModuleNotFoundError",
          "Package is required to be installed to use this datapipe. Please use pip install",
          <<lib>>)

\* The module states.
NotImported == [state |-> "new", error |-> NoError]

Imported == [state |-> "imported", error |-> NoError]

ImportFailed(e) == [state |-> "failed", error |-> e]

\* The annotation IterDataPipe[pystac.Asset] of XpySTACAssetReader.__init__:
\* evaluated when the def statement runs (unless annotations are deferred),
\* it raises AttributeError when pystac is None.
AnnotationRaises ==
    adapter = "XpySTACAssetReader" /\ eager /\ "pystac" \in Nones

\* import of the adapter's module.
Import ==
    /\ module = NotImported
    /\ module' = IF AnnotationRaises
                 THEN ImportFailed(Raise("AttributeError",
                         "'NoneType' object has no attribute 'Asset'", <<"pystac">>))
                 ELSE Imported
    /\ UNCHANGED <<upstream, args, length, transform, ctor, consumer, pc, frame,
                   error, calls>>

(***************************************************************************)
(* DatashaderRasterizerIterDataPipe                                        *)
(***************************************************************************)

\* UnmatchedLengths that only rejects a vector datapipe longer than both 1
\* and the canvas datapipe.
UnmatchedLengths_Longer(len_vector_datapipe, len_canvas_datapipe) ==
    len_vector_datapipe > 1 /\ len_vector_datapipe > len_canvas_datapipe

\* The length test of __init__: TRUE when the constructor raises ValueError.
UnmatchedLengths(len_vector_datapipe, len_canvas_datapipe) ==
    len_vector_datapipe /= 1 \/ len_vector_datapipe /= len_canvas_datapipe

\* __init__ that takes a datapipe without __len__ to be of length 0.
DS_Init_Unsized ==
    /\ adapter = "DatashaderRasterizer"
    /\ module = Imported
    /\ obj = "new"
    /\ LET len_vector_datapipe == IF vector_datapipe.sized THEN vector_datapipe.len ELSE 0
           len_canvas_datapipe == IF source_datapipe.sized THEN source_datapipe.len ELSE 0
       IN IF "spatialpandas" \in Nones
          THEN /\ obj' = "failed"
               /\ ctor_error' = ModuleNotFoundError("spatialpandas")
          ELSE IF UnmatchedLengths(len_vector_datapipe, len_canvas_datapipe)
          THEN /\ obj' = "failed"
               /\ ctor_error' = Raise("ValueError", "Unmatched lengths",
                                      <<len_canvas_datapipe, len_vector_datapipe>>)
          ELSE /\ obj' = "built"
               /\ ctor_error' = NoError
    /\ UNCHANGED <<upstream, args, module, length, transform, consumer, pc, frame, error, calls>>

\* __init__: the test of spatialpandas, then len() of the vector datapipe,
\* len() of the canvas datapipe, and the test of the two lengths.
DS_Init ==
    /\ adapter = "DatashaderRasterizer"
    /\ module = Imported
    /\ obj = "new"
    /\ IF "spatialpandas" \in Nones
       THEN /\ obj' = "failed"
            /\ ctor_error' = ModuleNotFoundError("spatialpandas")
       ELSE IF ~vector_datapipe.sized
       THEN /\ obj' = "failed"
            /\ ctor_error' = NoLength("vector_datapipe")
       ELSE IF ~source_datapipe.sized
       THEN /\ obj' = "failed"
            /\ ctor_error' = NoLength("source_datapipe")
       ELSE IF UnmatchedLengths(vector_datapipe.len, source_datapipe.len)
       THEN /\ obj' = "failed"
            /\ ctor_error' = Raise("ValueError", "Unmatched lengths",
                                   <<source_datapipe.len, vector_datapipe.len>>)
       ELSE /\ obj' = "built"
            /\ ctor_error' = NoError
    /\ UNCHANGED <<upstream, args, module, length, transform, consumer, pc, frame, error, calls>>

DS_Len == source_datapipe.len

\* Local variables of DatashaderRasterizer.__iter__ before its first statement.
\* listed counts the items list(self.vector_datapipe) has collected; zip
\* holds the two iterators of the zip_longest datapipe, each as the number
\* of items it has handed out (it is exhausted once that reaches the length).
DS_Frame ==
    [fill_value |-> Unbound, listed |-> 0,
     zip |-> [source |-> 0, vector |-> 0],
     canvas |-> Unbound, vector |-> Unbound, _vector |-> Unbound,
     raster |-> Unbound, _raster |-> Unbound]

\* list(self.vector_datapipe): one next() on the pass over vector_datapipe.
DS_ListNext ==
    /\ adapter = "DatashaderRasterizer"
    /\ pc = "list"
    /\ frame.listed < vector_datapipe.len
    /\ \E v \in NextItems(vector_datapipe, frame.listed + 1) :
          /\ vector_datapipe' = Pulled(vector_datapipe, frame.listed + 1, v)
          /\ frame' = [frame EXCEPT !.listed = @ + 1]
    /\ UNCHANGED <<source_datapipe, mask_datapipe, out, args, module, length, transform, ctor,
                   consumer, pc, error, calls>>

\* DS_ListPop whose zip_longest datapipe opens no second pass over
\* vector_datapipe.
DS_ListPop_Once ==
    /\ adapter = "DatashaderRasterizer"
    /\ pc = "list"
    /\ frame.listed = vector_datapipe.len
    /\ vector_datapipe.len > 0
    /\ pc' = "zip"
    /\ frame' = [frame EXCEPT !.fill_value = vector_datapipe.items[vector_datapipe.len]]
    /\ vector_datapipe' = Opened(vector_datapipe)
    /\ source_datapipe' = Opened(source_datapipe)
    /\ UNCHANGED <<mask_datapipe, out, args, module, length, transform, ctor, consumer,
                   error, calls>>

\* The pass over vector_datapipe is exhausted: .pop() takes the last item of
\* the list as fill_value (IndexError on an empty list), and the zip_longest
\* datapipe opens a pass over source_datapipe and a second one over
\* vector_datapipe.
DS_ListPop ==
    /\ adapter = "DatashaderRasterizer"
    /\ pc = "list"
    /\ frame.listed = vector_datapipe.len
    /\ IF vector_datapipe.len = 0
       THEN /\ pc' = "raised"
            /\ error' = Raise("IndexError", "pop from empty list", <<>>)
            /\ vector_datapipe' = Opened(vector_datapipe)
            /\ UNCHANGED <<source_datapipe, frame>>
       ELSE /\ pc' = "zip"
            /\ frame' = [frame EXCEPT
                           !.fill_value = vector_datapipe.items[vector_datapipe.len]]
            /\ vector_datapipe' = Opened(Opened(vector_datapipe))
            /\ source_datapipe' = Opened(source_datapipe)
            /\ UNCHANGED error
    /\ UNCHANGED <<mask_datapipe, out, args, module, length, transform, ctor, consumer, calls>>

\* One round of the loop over source_datapipe.zip_longest(vector_datapipe).
DS_Zip ==
    /\ adapter = "DatashaderRasterizer"
    /\ pc = "zip"
    /\ LET z == ZipLongest(source_datapipe, frame.zip.source,
                           vector_datapipe, frame.zip.vector, frame.fill_value)
           i == frame.zip.source + 1
           j == frame.zip.vector + 1
       IN IF ~z.more_a /\ ~z.more_b
          THEN /\ pc' = "finished"
               /\ UNCHANGED <<source_datapipe, vector_datapipe, frame>>
          ELSE /\ pc' = "canvas_crs"
               /\ \E c \in z.first, v \in z.second :
                    /\ source_datapipe' =
                          IF z.more_a THEN Pulled(source_datapipe, i, c)
                          ELSE source_datapipe
                    /\ vector_datapipe' =
                          IF z.more_b THEN Pulled(vector_datapipe, j, v)
                          ELSE vector_datapipe
                    /\ frame' = [frame EXCEPT
                          !.zip = [source |-> IF z.more_a THEN i ELSE @.source,
                                   vector |-> IF z.more_b THEN j ELSE @.vector],
                          !.canvas = c, !.vector = v]
    /\ UNCHANGED <<mask_datapipe, out, args, module, length, transform, ctor, consumer, error, calls>>

\* GetattrCrs with a CRS as the default instead of None.
GetattrCrs_Default(canvas) == IF canvas.crs = NoAttr THEN "EPSG:4326" ELSE canvas.crs

\* getattr(canvas, "crs", None)
GetattrCrs(canvas) == IF canvas.crs = NoAttr THEN None ELSE canvas.crs

\* canvas.crs = getattr(canvas, "crs", None), and the check of canvas.crs.
\* The assignment changes the object in place, under every name it has.
DS_CanvasCrs ==
    /\ adapter = "DatashaderRasterizer"
    /\ pc = "canvas_crs"
    /\ LET canvas == frame.canvas
           assigned == [canvas EXCEPT !.crs = GetattrCrs(canvas)]
       IN /\ source_datapipe' = Mutated(source_datapipe, canvas, assigned)
          /\ vector_datapipe' = Mutated(vector_datapipe, canvas, assigned)
          /\ frame' = [frame EXCEPT
                !.canvas = assigned,
                !.vector = IF @ = canvas THEN assigned ELSE @,
                !.fill_value = IF @ = canvas THEN assigned ELSE @]
          /\ IF assigned.crs = None
             THEN /\ pc' = "raised"
                  /\ error' = Raise("AttributeError",
                                    "Missing crs information for datashader.Canvas",
                                    <<canvas.type, canvas.id>>)
             ELSE /\ pc' = "vector_crs"
                  /\ UNCHANGED error
    /\ UNCHANGED <<mask_datapipe, out, args, module, length, transform, ctor, consumer, calls>>

\* to_crs that returns the layer as it is.
to_crs_Same(vector, crs) == vector

\* vector.to_crs(crs=...): a new layer in the given CRS.
to_crs(vector, crs) == [vector EXCEPT !.crs = crs, !.new = TRUE]

\* The body of the try block: if vector.crs != canvas.crs, reproject.  exc is
\* the exception it raises ("-" for none), vector the layer bound to the name
\* vector afterwards, calls the library calls it made.  Reading vector.crs
\* raises AttributeError on an object without the attribute; to_crs raises
\* ValueError on a layer whose crs is None.
DS_TryReproject(vector, canvas) ==
    LET read == Call("vector.crs", canvas, vector)
        reproject == Call("vector.to_crs", canvas, vector)
    IN IF vector.crs = NoAttr
       THEN [exc |-> "AttributeError", vector |-> vector, calls |-> <<read>>]
       ELSE IF vector.crs = canvas.crs
       THEN [exc |-> "-", vector |-> vector, calls |-> <<read>>]
       ELSE IF vector.crs = None
       THEN [exc |-> "ValueError", vector |-> vector, calls |-> <<read, reproject>>]
       ELSE [exc |-> "-", vector |-> to_crs(vector, canvas.crs),
             calls |-> <<read, reproject>>]

\* DS_Caught without ValueError.
DS_Caught_AttributeError == {"AttributeError"}

\* The exceptions the except clause of that try block catches.
DS_Caught == {"AttributeError", "ValueError"}

\* The try block around the reprojection of the vector, and its except clause.
DS_VectorCrs ==
    /\ adapter = "DatashaderRasterizer"
    /\ pc = "vector_crs"
    /\ LET try == DS_TryReproject(frame.vector, frame.canvas)
       IN /\ calls' = calls \o try.calls
          /\ frame' = [frame EXCEPT !.vector = try.vector]
          /\ IF try.exc = "-"
             THEN /\ pc' = "convert"
                  /\ UNCHANGED error
             ELSE /\ pc' = "raised"
                  /\ error' = IF try.exc \in DS_Caught
                              THEN Raise("AttributeError",
                                         "Missing crs information for input",
                                         <<frame.vector.type, frame.vector.id>>)
                              ELSE Raise(try.exc, "-", <<>>)
    /\ UNCHANGED <<upstream, args, module, length, transform, ctor, consumer>>

\* The spatialpandas geometry dtype spatialpandas.GeoDataFrame gives a layer
\* of the given shapely geometry type; None where the conversion raises
\* ValueError.
GeometryDtype(geom) ==
    CASE geom = "Point" -> "PointDtype"
      [] geom = "MultiPoint" -> "MultiPointDtype"
      [] geom = "LineString" -> "LineDtype"
      [] geom = "MultiLineString" -> "MultiLineDtype"
      [] geom = "Polygon" -> "PolygonDtype"
      [] geom = "MultiPolygon" -> "MultiPolygonDtype"
      [] OTHER -> None

\* The try block around the conversion to spatialpandas.
DS_Convert ==
    /\ adapter = "DatashaderRasterizer"
    /\ pc = "convert"
    /\ LET vector == frame.vector
           dtype == GeometryDtype(vector.geom)
       IN /\ calls' = Append(calls, Call("spatialpandas.GeoDataFrame", frame.canvas, vector))
          /\ IF dtype = None
             THEN /\ pc' = "raised"
                  /\ error' = Raise("NotImplementedError", "Unsupported geometry type(s)",
                                    <<vector.geom>>)
                  /\ UNCHANGED frame
             ELSE /\ pc' = "burn"
                  /\ frame' = [frame EXCEPT !._vector =
                        [Object("spatialpandas.GeoDataFrame", vector.id, vector.crs,
                                vector.geom, dtype, "-", <<>>) EXCEPT !.new = TRUE]]
                  /\ UNCHANGED error
    /\ UNCHANGED <<upstream, args, module, length, transform, ctor, consumer>>

\* BurnMethod with the multi-part dtypes left out of the isinstance tests.
BurnMethod_SinglePart(vector_dtype) ==
    IF vector_dtype \in {"PointDtype"} THEN "points"
    ELSE IF vector_dtype \in {"LineDtype"} THEN "line"
    ELSE IF vector_dtype \in {"PolygonDtype"} THEN "polygons"
    ELSE None

\* The branch of the isinstance chain a geometry dtype takes: the name of the
\* datashader.Canvas method called, or None when no branch is taken.
BurnMethod(vector_dtype) ==
    IF vector_dtype \in {"PointDtype", "MultiPointDtype"} THEN "points"
    ELSE IF vector_dtype \in {"LineDtype", "MultiLineDtype"} THEN "line"
    ELSE IF vector_dtype \in {"PolygonDtype", "MultiPolygonDtype"} THEN "polygons"
    ELSE None

\* The reduction a burn uses: self.agg, or the method's default when it is None.
Reduction(method, a) ==
    IF a /= None THEN a ELSE IF method = "points" THEN "count" ELSE "any"

\* The data type of the raster a reduction produces.
ReductionDtype(reduction) == IF reduction = "any" THEN "bool" ELSE "uint32"

\* A dispatch that takes no branch and goes on with a raster bound before
\* the loop, which is the burn of no pair.
DS_Burn_Stale ==
    /\ adapter = "DatashaderRasterizer"
    /\ pc = "burn"
    /\ pc' = "astype"
    /\ frame' = [frame EXCEPT !.raster =
          [Object("DataArray", 0, None, "-", "uint32", "-", <<>>) EXCEPT !.new = TRUE]]
    /\ UNCHANGED <<upstream, args, module, length, transform, ctor, consumer, error, calls>>

\* The isinstance chain and the burn.  A canvas slot filled by zip_longest
\* holds a vector layer, which has none of the three methods.
DS_Burn ==
    /\ adapter = "DatashaderRasterizer"
    /\ pc = "burn"
    /\ LET canvas == frame.canvas
           method == BurnMethod(frame._vector.dtype)
       IN IF method = None
          THEN /\ pc' = "astype"
               /\ UNCHANGED <<frame, error, calls>>
          ELSE IF canvas.type /= "Canvas"
          THEN /\ pc' = "raised"
               /\ error' = Raise("AttributeError", "object has no attribute", <<method>>)
               /\ UNCHANGED <<frame, calls>>
          ELSE /\ pc' = "astype"
               /\ frame' = [frame EXCEPT !.raster =
                     [Object("DataArray", 0, None, frame._vector.geom,
                             ReductionDtype(Reduction(method, agg)), method,
                             <<canvas.id, frame._vector.id>>) EXCEPT !.new = TRUE]]
               /\ calls' = Append(calls, Call("canvas." \o method, canvas, frame._vector))
               /\ UNCHANGED error
    /\ UNCHANGED <<upstream, args, module, length, transform, ctor, consumer>>

\* astype_uint8 that leaves a boolean raster as it is.
astype_uint8_Skip(raster) == raster

\* raster.astype(dtype="uint8") of a boolean raster.
astype_uint8(raster) ==
    IF raster.dtype = "bool" THEN [raster EXCEPT !.dtype = "uint8"] ELSE raster

\* if raster.dtype == "bool": raster = raster.astype(dtype="uint8").  The
\* name raster is unbound when no burn has run in this pass.
DS_Astype ==
    /\ adapter = "DatashaderRasterizer"
    /\ pc = "astype"
    /\ IF frame.raster = Unbound
       THEN /\ pc' = "raised"
            /\ error' = Raise("UnboundLocalError", "raster", <<>>)
            /\ UNCHANGED <<frame, calls>>
       ELSE /\ pc' = "set_crs"
            /\ frame' = [frame EXCEPT !.raster = astype_uint8(@)]
            /\ calls' = IF frame.raster.dtype = "bool"
                        THEN Append(calls, Call("raster.astype", frame.canvas, frame.raster))
                        ELSE calls
            /\ UNCHANGED error
    /\ UNCHANGED <<upstream, args, module, length, transform, ctor, consumer>>

\* raster = raster.rio.set_crs(input_crs=canvas.crs)
DS_SetCrs ==
    /\ adapter = "DatashaderRasterizer"
    /\ pc = "set_crs"
    /\ pc' = "reproject"
    /\ frame' = [frame EXCEPT !.raster.crs = frame.canvas.crs]
    /\ calls' = Append(calls, Call("raster.rio.set_crs", frame.canvas, frame.raster))
    /\ UNCHANGED <<upstream, args, module, length, transform, ctor, consumer, error>>

\* _raster = raster.rio.reproject(dst_crs=canvas.crs, shape=raster.rio.shape)
DS_Reproject ==
    /\ adapter = "DatashaderRasterizer"
    /\ pc = "reproject"
    /\ pc' = "yield"
    /\ frame' = [frame EXCEPT !._raster = [frame.raster EXCEPT !.crs = frame.canvas.crs]]
    /\ calls' = Append(calls, Call("raster.rio.reproject", frame.canvas, frame.raster))
    /\ UNCHANGED <<upstream, args, module, length, transform, ctor, consumer, error>>

\* yield _raster
DS_Yield ==
    /\ adapter = "DatashaderRasterizer"
    /\ pc = "yield"
    /\ pc' = "suspended"
    /\ delivered' = Append(delivered, frame._raster)
    /\ UNCHANGED <<upstream, args, module, length, transform, ctor, passes, requested, stops,
                   frame, error, calls>>

(***************************************************************************)
(* GeoPandasRectangleClipperIterDataPipe                                   *)
(***************************************************************************)

\* NotOneVector that lets an empty vector datapipe through.
NotOneVector_More(len_vector_datapipe) == len_vector_datapipe > 1

\* The length test of __init__: TRUE when the constructor raises
\* NotImplementedError.
NotOneVector(len_vector_datapipe) == len_vector_datapipe /= 1

Clip_Init ==
    /\ adapter = "GeoPandasRectangleClipper"
    /\ module = Imported
    /\ obj = "new"
    /\ IF "geopandas" \in Nones
       THEN /\ obj' = "failed"
            /\ ctor_error' = ModuleNotFoundError("geopandas")
       ELSE IF NotOneVector(source_datapipe.len)
       THEN /\ obj' = "failed"
            /\ ctor_error' = Raise("NotImplementedError",
                                   "The vector datapipe's length can only be (1)",
                                   <<source_datapipe.len>>)
       ELSE /\ obj' = "built"
            /\ ctor_error' = NoError
    /\ UNCHANGED <<upstream, args, module, length, transform, consumer, pc, frame, error, calls>>

\* __len__ returning the length of the vector datapipe.
Clip_Len_Vector == source_datapipe.len

Clip_Len == mask_datapipe.len

\* Local variables of GeoPandasRectangleClipper.__iter__; listed counts the
\* items list(self.source_datapipe) has collected, masks the items the loop
\* has taken from mask_datapipe.
Clip_Frame ==
    [geodataframe |-> Unbound, listed |-> 0, masks |-> 0, raster |-> Unbound,
     _geodataframe |-> Unbound]

\* list(self.source_datapipe): one next() on the pass over source_datapipe.
Clip_ListNext ==
    /\ adapter = "GeoPandasRectangleClipper"
    /\ pc = "list"
    /\ frame.listed < source_datapipe.len
    /\ \E v \in NextItems(source_datapipe, frame.listed + 1) :
          /\ source_datapipe' = Pulled(source_datapipe, frame.listed + 1, v)
          /\ frame' = [frame EXCEPT !.listed = @ + 1]
    /\ UNCHANGED <<vector_datapipe, mask_datapipe, out, args, module, length, transform, ctor,
                   consumer, pc, error, calls>>

\* .pop() takes the last item of the list (IndexError on an empty list), and
\* the for loop opens a pass over mask_datapipe.
Clip_ListPop ==
    /\ adapter = "GeoPandasRectangleClipper"
    /\ pc = "list"
    /\ frame.listed = source_datapipe.len
    /\ IF source_datapipe.len = 0
       THEN /\ pc' = "raised"
            /\ error' = Raise("IndexError", "pop from empty list", <<>>)
            /\ source_datapipe' = Opened(source_datapipe)
            /\ UNCHANGED <<mask_datapipe, frame>>
       ELSE /\ pc' = "for"
            /\ frame' = [frame EXCEPT
                           !.geodataframe = source_datapipe.items[source_datapipe.len]]
            /\ source_datapipe' = Opened(source_datapipe)
            /\ mask_datapipe' = Opened(mask_datapipe)
            /\ UNCHANGED error
    /\ UNCHANGED <<vector_datapipe, out, args, module, length, transform, ctor, consumer, calls>>

\* for raster in self.mask_datapipe, and mask = raster.rio.bounds().
Clip_For ==
    /\ adapter = "GeoPandasRectangleClipper"
    /\ pc = "for"
    /\ IF frame.masks = mask_datapipe.len
       THEN /\ pc' = "finished"
            /\ UNCHANGED <<mask_datapipe, frame, calls>>
       ELSE /\ pc' = "crs"
            /\ \E raster \in NextItems(mask_datapipe, frame.masks + 1) :
                  /\ mask_datapipe' = Pulled(mask_datapipe, frame.masks + 1, raster)
                  /\ frame' = [frame EXCEPT !.masks = @ + 1, !.raster = raster]
                  /\ calls' = Append(calls, Call("raster.rio.bounds", raster, raster))
    /\ UNCHANGED <<source_datapipe, vector_datapipe, out, args, module, length, transform, ctor,
                   consumer, error>>

\* The try block: assert geodataframe.crs == raster.rio.crs, with the
\* reprojection in the handler of AssertionError.  The assert statement is
\* not executed when __debug__ is false.  to_crs raises ValueError on a
\* layer whose crs is None and when the crs given is None.
Clip_TryAssert(geodataframe, raster, assertions) ==
    LET reproject == Call("geodataframe.to_crs", raster, geodataframe)
    IN IF ~assertions \/ geodataframe.crs = raster.crs
       THEN [exc |-> "-", vector |-> geodataframe, calls |-> <<>>]
       ELSE IF geodataframe.crs = None \/ raster.crs = None
       THEN [exc |-> "ValueError", vector |-> geodataframe, calls |-> <<reproject>>]
       ELSE [exc |-> "-", vector |-> to_crs(geodataframe, raster.crs),
             calls |-> <<reproject>>]

Clip_Crs ==
    /\ adapter = "GeoPandasRectangleClipper"
    /\ pc = "crs"
    /\ LET try == Clip_TryAssert(frame.geodataframe, frame.raster, debug)
       IN /\ calls' = calls \o try.calls
          /\ frame' = [frame EXCEPT !._geodataframe = try.vector]
          /\ IF try.exc = "-"
             THEN /\ pc' = "clip"
                  /\ UNCHANGED error
             ELSE /\ pc' = "raised"
                  /\ error' = Raise(try.exc, "-", <<>>)
    /\ UNCHANGED <<upstream, args, module, length, transform, ctor, consumer>>

\* _geodataframe.clip(mask=mask): a new layer.
clip(_geodataframe, raster) ==
    [_geodataframe EXCEPT !.new = TRUE, !.op = "clip",
                          !.of = <<_geodataframe.id, raster.id>>]

\* clipped_geodataframe = _geodataframe.clip(mask=mask, **self.kwargs)
\* yield clipped_geodataframe, raster
Clip_Clip ==
    /\ adapter = "GeoPandasRectangleClipper"
    /\ pc = "clip"
    /\ pc' = "suspended"
    /\ calls' = Append(calls, Call("_geodataframe.clip", frame.raster, frame._geodataframe))
    /\ delivered' = Append(delivered, <<clip(frame._geodataframe, frame.raster),
                                        frame.raster>>)
    /\ UNCHANGED <<upstream, args, module, length, transform, ctor, passes, requested, stops,
                   frame, error>>

(***************************************************************************)
(* RasterioRasterizerIterDataPipe                                          *)
(***************************************************************************)

\* __init__ stores its arguments and the two lengths.
Rio_Init ==
    /\ adapter = "RasterioRasterizer"
    /\ module = Imported
    /\ obj = "new"
    /\ obj' = "built"
    /\ ctor_error' = NoError
    /\ UNCHANGED <<upstream, args, module, length, transform, consumer, pc, frame, error, calls>>

len_iter_vector == source_datapipe.len

len_iter_raster == out.len

Rio_Len == IF len_iter_vector >= len_iter_raster THEN len_iter_vector ELSE len_iter_raster

\* Local variables of RasterioRasterizer.__iter__; zip holds the two
\* iterators of the zip_longest datapipe.
Rio_Frame ==
    [fill_value |-> Unbound, zip |-> [out |-> 0, source |-> 0],
     _out |-> Unbound, _geoseries |-> Unbound]

\* A pass that never broadcasts: fill_value = None whatever the lengths.
Rio_FillValue_None ==
    /\ adapter = "RasterioRasterizer"
    /\ pc = "fill"
    /\ pc' = "zip"
    /\ out' = Opened(out)
    /\ source_datapipe' = Opened(source_datapipe)
    /\ frame' = [frame EXCEPT !.fill_value = NoneObject]
    /\ UNCHANGED <<vector_datapipe, mask_datapipe, args, module, length, transform, ctor, consumer,
                   error, calls>>

\* fill_value = list(self.source_datapipe)[0] if self.len_iter_vector == 1
\* else None, and the zip_longest datapipe opens a pass over out and one
\* over source_datapipe.
Rio_FillValue ==
    /\ adapter = "RasterioRasterizer"
    /\ pc = "fill"
    /\ pc' = "zip"
    /\ out' = Opened(out)
    /\ IF len_iter_vector = 1
       THEN \E v \in NextItems(source_datapipe, 1) :
               /\ source_datapipe' = Opened(Opened(Pulled(source_datapipe, 1, v)))
               /\ frame' = [frame EXCEPT !.fill_value = v]
       ELSE /\ source_datapipe' = Opened(source_datapipe)
            /\ frame' = [frame EXCEPT !.fill_value = NoneObject]
    /\ UNCHANGED <<vector_datapipe, mask_datapipe, args, module, length, transform, ctor, consumer,
                   error, calls>>

\* The default of the parameter out: IterableWrapper([None]), evaluated once
\* when the class is defined, so every instance constructed without out
\* holds this one datapipe.
Rio_DefaultOut == DataPipe("none", 1)

\* The iterator over self.out of the pass in progress has not met the end
\* of out: zip_longest will call next() on it in its next round.
Rio_OutLive ==
    /\ pc = "suspended"
    /\ frame.zip.out <= out.len /\ frame.zip.source <= out.len

\* Another RasterioRasterizer constructed without out begins a pass, between
\* two next() calls on this one: its zip_longest creates an iterator on the
\* default out, the datapipe this instance holds too.  A datapipe that
\* allows one live iterator invalidates the one this instance's pass holds,
\* another leaves it alone.
Rio_Sibling ==
    /\ adapter = "RasterioRasterizer"
    /\ obj = "built"
    /\ out.kind = Rio_DefaultOut.kind
    /\ pc \in {"none", "created", "suspended", "finished", "raised"}
    /\ out.others < MaxOthers
    /\ \E invalidates \in IF Rio_OutLive THEN BOOLEAN ELSE {FALSE} :
          out' = [out EXCEPT !.others = @ + 1, !.invalid = invalidates \/ @]
    /\ UNCHANGED <<source_datapipe, vector_datapipe, mask_datapipe, args, module, length,
                   transform, ctor, consumer, pc, frame, error, calls>>

\* One round of the loop over self.out.zip_longest(self.source_datapipe);
\* next() on the iterator over out raises when it has been invalidated.
Rio_Zip ==
    /\ adapter = "RasterioRasterizer"
    /\ pc = "zip"
    /\ LET z == ZipLongest(out, frame.zip.out, source_datapipe, frame.zip.source,
                           frame.fill_value)
           i == frame.zip.out + 1
           j == frame.zip.source + 1
       IN IF out.invalid
          THEN /\ pc' = "raised"
               /\ error' = Invalidated("out")
               /\ UNCHANGED <<source_datapipe, out, frame>>
          ELSE IF ~z.more_a /\ ~z.more_b
          THEN /\ pc' = "finished"
               /\ UNCHANGED <<source_datapipe, out, frame, error>>
          ELSE /\ pc' = "template"
               /\ \E o \in z.first, g \in z.second :
                    /\ out' = IF z.more_a THEN Pulled(out, i, o) ELSE out
                    /\ source_datapipe' =
                          IF z.more_b THEN Pulled(source_datapipe, j, g)
                          ELSE source_datapipe
                    /\ frame' = [frame EXCEPT
                          !.zip = [out |-> IF z.more_a THEN i ELSE @.out,
                                   source |-> IF z.more_b THEN j ELSE @.source],
                          !._out = o, !._geoseries = g]
               /\ UNCHANGED error
    /\ UNCHANGED <<vector_datapipe, mask_datapipe, args, module, length, transform, ctor, consumer,
                   calls>>

\* An in-place _out *= 0: the template itself, emptied.
TimesZero_Same(_out) == _out

\* _out * 0: a new, empty raster on the grid of the template.
TimesZero(_out) == [_out EXCEPT !.new = TRUE, !.op = "zeros"]

\* hasattr(_out, "rio")
HasRio(_out) == _out.type = "DataArray"

\* The body of if hasattr(_out, "rio"): the empty copy of the template, the
\* transform taken from it when self.transform is still IDENTITY, and the
\* reprojection of a vector that has a crs other than the template's.
Rio_Template ==
    /\ adapter = "RasterioRasterizer"
    /\ pc = "template"
    /\ IF ~HasRio(frame._out)
       THEN /\ pc' = "rasterize"
            /\ UNCHANGED <<frame, transform, error, calls>>
       ELSE LET _out == TimesZero(frame._out)
                _geoseries == frame._geoseries
                reproject == Call("_geoseries.to_crs", _out, _geoseries)
            IN /\ transform' = IF transform = IDENTITY THEN _out.transform
                               ELSE transform
               /\ IF _geoseries.crs = NoAttr \/ _geoseries.crs = _out.crs
                  THEN /\ pc' = "rasterize"
                       /\ frame' = [frame EXCEPT !._out = _out]
                       /\ UNCHANGED <<error, calls>>
                  ELSE IF _geoseries.crs = None \/ _out.crs = None
                  THEN /\ pc' = "raised"
                       /\ error' = Raise("ValueError", "-", <<>>)
                       /\ frame' = [frame EXCEPT !._out = _out]
                       /\ calls' = Append(calls, reproject)
                  ELSE /\ pc' = "rasterize"
                       /\ frame' = [frame EXCEPT
                             !._out = _out,
                             !._geoseries = to_crs(_geoseries, _out.crs)]
                       /\ calls' = Append(calls, reproject)
                       /\ UNCHANGED error
    /\ UNCHANGED <<upstream, args, module, length, ctor, consumer>>

\* What rasterio.features.rasterize cannot work with: shapes that are None,
\* an out that is not an array, or neither an out nor an out_shape.
RasterizeRaises(_geoseries, _out, shape) ==
    \/ _geoseries.type = "NoneType"
    \/ _out.type \notin {"DataArray", "ndarray", "NoneType"}
    \/ _out.type = "NoneType" /\ shape = None

\* The array rasterize returns: out itself with the shapes burned into it,
\* or a new array of shape out_shape when out is None.
Rasterized(_geoseries, _out, affine) ==
    IF _out.type = "NoneType"
    THEN [Object("ndarray", 0, NoAttr, "-", "uint8", "rasterize", <<0, _geoseries.id>>)
             EXCEPT !.new = TRUE, !.transform = affine]
    ELSE [_out EXCEPT !.op = "rasterize", !.of = <<_out.id, _geoseries.id>>,
                      !.transform = affine]

\* yield rasterio.features.rasterize(shapes=_geoseries, out=_out, ...)
Rio_Rasterize ==
    /\ adapter = "RasterioRasterizer"
    /\ pc = "rasterize"
    /\ calls' = Append(calls, Call("rasterio.features.rasterize", frame._out,
                                   frame._geoseries))
    /\ IF RasterizeRaises(frame._geoseries, frame._out, out_shape)
       THEN /\ pc' = "raised"
            /\ error' = Raise("rasterio error", "-", <<>>)
            /\ UNCHANGED <<out, frame, delivered>>
       ELSE LET image == Rasterized(frame._geoseries, frame._out, transform)
            IN /\ pc' = "suspended"
               /\ out' = Mutated(out, frame._out, image)
               /\ frame' = [frame EXCEPT !._out = image]
               /\ delivered' = Append(delivered, image)
               /\ UNCHANGED error
    /\ UNCHANGED <<source_datapipe, vector_datapipe, mask_datapipe, args, module, length, transform,
                   ctor, passes, requested, stops>>

(***************************************************************************)
(* PyogrioReaderIterDataPipe                                               *)
(***************************************************************************)

Pyogrio_Init ==
    /\ adapter = "PyogrioReader"
    /\ module = Imported
    /\ obj = "new"
    /\ IF "pyogrio" \in Nones
       THEN /\ obj' = "failed"
            /\ ctor_error' = ModuleNotFoundError("pyogrio")
       ELSE /\ obj' = "built"
            /\ ctor_error' = NoError
    /\ UNCHANGED <<upstream, args, module, length, transform, consumer, pc, frame, error, calls>>

Pyogrio_Len == source_datapipe.len

\* Local variables of PyogrioReader.__iter__; taken counts the items the
\* loop has taken from source_datapipe.
Pyogrio_Frame == [taken |-> 0, filename |-> Unbound]

\* for filename in self.source_datapipe (the pass is opened on the first
\* round).
Pyogrio_For ==
    /\ adapter = "PyogrioReader"
    /\ pc = "for"
    /\ LET dp == IF frame.taken = 0 THEN Opened(source_datapipe) ELSE source_datapipe
       IN IF frame.taken = dp.len
          THEN /\ pc' = "finished"
               /\ source_datapipe' = dp
               /\ UNCHANGED frame
          ELSE /\ pc' = "read"
               /\ \E filename \in NextItems(dp, frame.taken + 1) :
                     /\ source_datapipe' = Pulled(dp, frame.taken + 1, filename)
                     /\ frame' = [frame EXCEPT !.taken = @ + 1, !.filename = filename]
    /\ UNCHANGED <<vector_datapipe, mask_datapipe, out, args, module, length, transform, ctor,
                   consumer, error, calls>>

\* Pyogrio_Read with an error of read_dataframe handled by going on to the
\* next file.
Pyogrio_Read_Skip ==
    /\ adapter = "PyogrioReader"
    /\ pc = "read"
    /\ calls' = Append(calls, CallWith("pyogrio.read_dataframe", frame.filename, kwargs))
    /\ IF ~frame.filename.readable
       THEN /\ pc' = "for"
            /\ UNCHANGED delivered
       ELSE /\ pc' = "suspended"
            /\ delivered' = Append(delivered,
                  [Object("StreamWrapper", 0, NoAttr, "-", "-", "read_dataframe",
                          <<frame.filename.id>>) EXCEPT !.new = TRUE])
    /\ UNCHANGED <<upstream, args, module, length, transform, ctor, passes, requested, stops, frame,
                   error>>

\* yield StreamWrapper(pyogrio.read_dataframe(filename, **self.kwargs)); an
\* error of read_dataframe is not handled.
Pyogrio_Read ==
    /\ adapter = "PyogrioReader"
    /\ pc = "read"
    /\ calls' = Append(calls, CallWith("pyogrio.read_dataframe", frame.filename, kwargs))
    /\ IF ~frame.filename.readable
       THEN /\ pc' = "raised"
            /\ error' = Raise("DataSourceError", "-", <<frame.filename.id>>)
            /\ UNCHANGED delivered
       ELSE /\ pc' = "suspended"
            /\ delivered' = Append(delivered,
                  [Object("StreamWrapper", 0, NoAttr, "-", "-", "read_dataframe",
                          <<frame.filename.id>>) EXCEPT !.new = TRUE])
            /\ UNCHANGED error
    /\ UNCHANGED <<upstream, args, module, length, transform, ctor, passes, requested, stops, frame>>

(***************************************************************************)
(* The adapters that turn each input into one output by one library call. *)
(***************************************************************************)

\* __init__ of an adapter that checks one optional library and then stores
\* its arguments.
InitChecking(lib) ==
    /\ module = Imported
    /\ obj = "new"
    /\ IF lib \in Nones
       THEN /\ obj' = "failed"
            /\ ctor_error' = ModuleNotFoundError(lib)
       ELSE /\ obj' = "built"
            /\ ctor_error' = NoError
    /\ UNCHANGED <<upstream, args, module, length, transform, consumer, pc, frame, error, calls>>

\* __init__ of an adapter that only stores its arguments.
InitStoring ==
    /\ module = Imported
    /\ obj = "new"
    /\ obj' = "built"
    /\ ctor_error' = NoError
    /\ UNCHANGED <<upstream, args, module, length, transform, consumer, pc, frame, error, calls>>

\* Local variables of a generator with one loop over source_datapipe; taken
\* counts the items the loop has taken, item is the loop variable.
LoopFrame == [taken |-> 0, item |-> Unbound]

\* for item in self.source_datapipe, with the loop's body at `body` (the
\* pass is opened on the first round).  The loop's next() raises when the
\* iterator has been invalidated.
ForEach(body) ==
    /\ pc = "for"
    /\ LET dp == IF frame.taken = 0 THEN Opened(source_datapipe) ELSE source_datapipe
       IN IF dp.invalid
          THEN /\ pc' = "raised"
               /\ error' = Invalidated("source_datapipe")
               /\ UNCHANGED <<source_datapipe, frame>>
          ELSE IF frame.taken = dp.len
          THEN /\ pc' = "finished"
               /\ source_datapipe' = dp
               /\ UNCHANGED <<frame, error>>
          ELSE /\ pc' = body
               /\ \E item \in NextItems(dp, frame.taken + 1) :
                     /\ source_datapipe' = Pulled(dp, frame.taken + 1, item)
                     /\ frame' = [frame EXCEPT !.taken = @ + 1, !.item = item]
               /\ UNCHANGED error
    /\ UNCHANGED <<vector_datapipe, mask_datapipe, out, args, module, length, transform, ctor,
                   consumer, calls>>

\* yield result, where the result comes from the library call `call` on the
\* loop variable; an error of the library is not handled.
YieldCall(call, result) ==
    /\ pc = "call"
    /\ calls' = Append(calls, call)
    /\ IF ~frame.item.readable
       THEN /\ pc' = "raised"
            /\ error' = Raise("LibraryError", call.fn, <<frame.item.id>>)
            /\ UNCHANGED delivered
       ELSE /\ pc' = "suspended"
            /\ delivered' = Append(delivered, result)
            /\ UNCHANGED error
    /\ UNCHANGED <<upstream, args, module, length, transform, ctor, passes, requested, stops, frame>>

(***************************************************************************)
(* LaspyReaderIterDataPipe                                                 *)
(***************************************************************************)

Laspy_Init ==
    /\ adapter = "LaspyReader"
    /\ InitChecking("laspy")

Laspy_Len == source_datapipe.len

\* for lazstream in self.source_datapipe
Laspy_For ==
    /\ adapter = "LaspyReader"
    /\ ForEach("call")

\* yield StreamWrapper(laspy.read(source=lazstream, **self.kwargs))
Laspy_Read ==
    /\ adapter = "LaspyReader"
    /\ YieldCall(CallWith("laspy.read", frame.item, kwargs),
              StreamWrapper(Returned("laspy.LasData", "laspy.read", frame.item)))

(***************************************************************************)
(* PySTACItemReaderIterDataPipe                                            *)
(***************************************************************************)

PySTACItem_Init ==
    /\ adapter = "PySTACItemReader"
    /\ InitChecking("pystac")

PySTACItem_Len == source_datapipe.len

\* for href in self.source_datapipe
PySTACItem_For ==
    /\ adapter = "PySTACItemReader"
    /\ ForEach("call")

\* yield pystac.Item.from_file(href=href, **self.kwargs)
PySTACItem_Read ==
    /\ adapter = "PySTACItemReader"
    /\ YieldCall(CallWith("pystac.Item.from_file", frame.item, kwargs),
              Returned("pystac.Item", "pystac.Item.from_file", frame.item))

(***************************************************************************)
(* RioXarrayReaderIterDataPipe                                             *)
(***************************************************************************)

\* rioxarray is a required dependency: the module imports it unguarded and
\* __init__ checks nothing.
RioXarray_Init ==
    /\ adapter = "RioXarrayReader"
    /\ InitStoring

RioXarray_Len == source_datapipe.len

\* for filename in self.source_datapipe
RioXarray_For ==
    /\ adapter = "RioXarrayReader"
    /\ ForEach("call")

\* yield (filename, StreamWrapper(rioxarray.open_rasterio(filename=filename,
\* **self.kwargs)))
RioXarray_Read ==
    /\ adapter = "RioXarrayReader"
    /\ YieldCall(CallWith("rioxarray.open_rasterio", frame.item, kwargs),
              <<frame.item,
                StreamWrapper(Returned("xarray.DataArray", "rioxarray.open_rasterio",
                                       frame.item))>>)

(***************************************************************************)
(* XpySTACAssetReaderIterDataPipe                                          *)
(***************************************************************************)

\* if xpystac is None: raise ModuleNotFoundError, whatever the engine.
XpySTAC_Init ==
    /\ adapter = "XpySTACAssetReader"
    /\ InitChecking("xpystac")

XpySTAC_Len == source_datapipe.len

\* for asset in self.source_datapipe
XpySTAC_For ==
    /\ adapter = "XpySTACAssetReader"
    /\ ForEach("call")

\* yield StreamWrapper(xr.open_dataset(asset, engine=self.engine,
\* **self.kwargs))
XpySTAC_Read ==
    /\ adapter = "XpySTACAssetReader"
    /\ YieldCall([engine |-> engine] @@ CallWith("xr.open_dataset", frame.item, kwargs),
              StreamWrapper(Returned("xarray.Dataset", "xr.open_dataset", frame.item)))

(***************************************************************************)
(* StackSTACStackerIterDataPipe and StackSTACMosaickerIterDataPipe        *)
(***************************************************************************)

Stacker_Init ==
    /\ adapter = "StackSTACStacker"
    /\ InitChecking("stackstac")

Stacker_Len == source_datapipe.len

\* for stac_items in self.source_datapipe
Stacker_For ==
    /\ adapter = "StackSTACStacker"
    /\ ForEach("call")

\* yield stackstac.stack(items=stac_items, **self.kwargs)
Stacker_Stack ==
    /\ adapter = "StackSTACStacker"
    /\ YieldCall(CallWith("stackstac.stack", frame.item, kwargs),
              Returned("xarray.DataArray", "stackstac.stack", frame.item))

Mosaicker_Init ==
    /\ adapter = "StackSTACMosaicker"
    /\ InitChecking("stackstac")

Mosaicker_Len == source_datapipe.len

\* for dataarray in self.source_datapipe
Mosaicker_For ==
    /\ adapter = "StackSTACMosaicker"
    /\ ForEach("call")

\* Mosaicker_Mosaic with the stored options left out of the call.
Mosaicker_Mosaic_NoOptions ==
    /\ adapter = "StackSTACMosaicker"
    /\ YieldCall(CallWith("stackstac.mosaic", frame.item, NoKwargs),
              Returned("xarray.DataArray", "stackstac.mosaic", frame.item))

\* yield stackstac.mosaic(arr=dataarray, **self.kwargs)
Mosaicker_Mosaic ==
    /\ adapter = "StackSTACMosaicker"
    /\ YieldCall(CallWith("stackstac.mosaic", frame.item, kwargs),
              Returned("xarray.DataArray", "stackstac.mosaic", frame.item))

(***************************************************************************)
(* PySTACAPISearcherIterDataPipe                                           *)
(***************************************************************************)

\* The catalog_url argument.
catalog_url == Locator(0, TRUE)

Searcher_Init ==
    /\ adapter = "PySTACAPISearcher"
    /\ InitChecking("pystac_client")

Searcher_Len == source_datapipe.len

\* Local variables of PySTACAPISearcher.__iter__.
Searcher_Frame == [taken |-> 0, item |-> Unbound, catalog |-> Unbound]

\* The connection pystac_client.Client.open returns in pass p after n
\* earlier connections of that pass.
Client(p, n) ==
    [Object("pystac_client.Client", n + 1, NoAttr, "-", "-",
            "pystac_client.Client.open", <<p>>) EXCEPT !.new = TRUE]

\* The connections opened so far in the running pass.
Opens == {k \in DOMAIN calls : calls[k].fn = "pystac_client.Client.open"}

\* catalog = pystac_client.Client.open(url=self.catalog_url, **self.kwargs):
\* the first statement of the generator, run by the first next() of a pass.
Searcher_Open ==
    /\ adapter = "PySTACAPISearcher"
    /\ pc = "open"
    /\ calls' = Append(calls, CallWith("pystac_client.Client.open", catalog_url, kwargs))
    /\ frame' = [frame EXCEPT !.catalog = Client(passes, Cardinality(Opens))]
    /\ pc' = "for"
    /\ UNCHANGED <<upstream, args, module, length, transform, ctor, consumer, error>>

\* for query in self.source_datapipe
Searcher_For ==
    /\ adapter = "PySTACAPISearcher"
    /\ ForEach("call")

\* The handle catalog.search returns: a deferred query bound to its client.
Search(catalog, query) ==
    [client |-> catalog] @@ Returned("pystac_client.ItemSearch", "catalog.search", query)

\* Searcher_Search with a connection opened for every query.
Searcher_Search_Reopen ==
    /\ adapter = "PySTACAPISearcher"
    /\ pc = "call"
    /\ LET catalog == Client(passes, Cardinality(Opens))
       IN /\ calls' = calls \o
                <<CallWith("pystac_client.Client.open", catalog_url, kwargs),
                  CallWith("catalog.search", frame.item, NoKwargs)>>
          /\ IF ~frame.item.readable
             THEN /\ pc' = "raised"
                  /\ error' = Raise("LibraryError", "catalog.search", <<frame.item.id>>)
                  /\ UNCHANGED delivered
             ELSE /\ pc' = "suspended"
                  /\ delivered' = Append(delivered, Search(catalog, frame.item))
                  /\ UNCHANGED error
    /\ UNCHANGED <<upstream, args, module, length, transform, ctor, passes, requested, stops, frame>>

\* search = catalog.search(**query); yield search.  The query is the whole
\* argument list; the stored options are not passed.
Searcher_Search ==
    /\ adapter = "PySTACAPISearcher"
    /\ YieldCall(CallWith("catalog.search", frame.item, NoKwargs),
              Search(frame.catalog, frame.item))

(***************************************************************************)
(* PySTACAPIItemListerIterDataPipe                                         *)
(***************************************************************************)

Lister_Init ==
    /\ adapter = "PySTACAPIItemLister"
    /\ InitChecking("pystac_client")

\* Local variables of a generator that yields the sub-items of each input;
\* yielded counts the sub-items of the current input it has yielded.
FlattenFrame == [taken |-> 0, item |-> Unbound, yielded |-> 0]

\* for item_search in self.source_datapipe
Lister_For ==
    /\ adapter = "PySTACAPIItemLister"
    /\ ForEach("items")

\* item_search.items(): the enumeration is created, nothing is fetched yet.
Lister_Items ==
    /\ adapter = "PySTACAPIItemLister"
    /\ pc = "items"
    /\ calls' = Append(calls, Call("item_search.items", Unbound, frame.item))
    /\ frame' = [frame EXCEPT !.yielded = 0]
    /\ pc' = "yield from"
    /\ UNCHANGED <<upstream, args, module, length, transform, ctor, consumer, error>>

\* The k-th pystac.Item a handle enumerates.
Item(item_search, k) ==
    [Object("pystac.Item", k, NoAttr, "-", "-", "item_search.items", <<item_search.id>>)
        EXCEPT !.new = TRUE]

\* yield from item_search.items(): the next item of the enumeration, or on
\* to the next handle when it is exhausted.
Lister_YieldFrom ==
    /\ adapter = "PySTACAPIItemLister"
    /\ pc = "yield from"
    /\ IF frame.yielded < frame.item.items
       THEN /\ delivered' = Append(delivered, Item(frame.item, frame.yielded + 1))
            /\ frame' = [frame EXCEPT !.yielded = @ + 1]
            /\ pc' = "suspended"
       ELSE /\ pc' = "for"
            /\ UNCHANGED <<delivered, frame>>
    /\ UNCHANGED <<upstream, args, module, length, transform, ctor, passes, requested, stops,
                   error, calls>>

\* The sequences of items a full pass over dp hands out: those handed out
\* before stay, the others are drawn now.
FullPass(dp) ==
    {s \in [1..dp.len -> UNION {NextItems(dp, i) : i \in 1..dp.len}] :
        \A i \in 1..dp.len : s[i] \in NextItems(dp, i)}

\* dp after a full pass that handed out the items s.
Passed(dp, s) ==
    [dp EXCEPT !.items = s,
               !.orig = [i \in 1..dp.len |-> IF i <= Len(dp.orig) THEN dp.orig[i] ELSE s[i]],
               !.pulls = @ + dp.len,
               !.iters = @ + 1]

RECURSIVE Sum(_, _)
\* f[1] + ... + f[n]
Sum(f, n) == IF n = 0 THEN 0 ELSE Sum(f, n - 1) + f[n]

\* What a len() call that raised gave: no number, and the error.
LenError(e) == [value |-> 0 - 1, error |-> e]

\* What each handle of the pass s adds to the Lister's length, taken from
\* the number of items it enumerates.
Lister_Count_Items(s) == [i \in DOMAIN s |-> s[i].items]

\* item_search.matched() for each handle of the pass s.
Lister_Count(s) == [i \in DOMAIN s |-> s[i].matched]

\* len(dp): sum(item_search.matched() for item_search in
\* self.source_datapipe), a pass of its own over the upstream, made by the
\* consumer between its next() calls.  When a pass of the adapter is
\* suspended part-way through the upstream, the new iterator is a second
\* one on the same datapipe: an upstream that allows one live iterator
\* invalidates the one the pass holds, another leaves it alone.  during is
\* the pass that was in progress (0 when none was).
Lister_Len ==
    /\ adapter = "PySTACAPIItemLister"
    /\ obj = "built"
    /\ pc \in {"none", "created", "suspended", "finished", "raised"}
    /\ Len(length) < MaxLens
    /\ \E s \in FullPass(source_datapipe),
          invalidates \in IF pc = "suspended" THEN BOOLEAN ELSE {FALSE} :
          /\ source_datapipe' = [Passed(source_datapipe, s) EXCEPT !.invalid = invalidates]
          /\ length' = Append(length,
                [value |-> Sum(Lister_Count(s), Len(s)),
                 error |-> NoError,
                 during |-> IF pc = "suspended" THEN passes ELSE 0,
                 calls |-> [i \in DOMAIN s |->
                              [fn |-> "item_search.matched", arg |-> s[i]]]])
    /\ UNCHANGED <<vector_datapipe, mask_datapipe, out, args, module, transform, ctor, consumer,
                   pc, frame, error, calls>>

(***************************************************************************)
(* XbatcherSlicerIterDataPipe                                              *)
(***************************************************************************)

\* The input_dims argument.
input_dims == "{y: 64, x: 64}"

\* xr.backends.api.DATAARRAY_VARIABLE
DATAARRAY_VARIABLE == "__xarray_dataarray_variable__"

Xbatcher_Init ==
    /\ adapter = "XbatcherSlicer"
    /\ InitChecking("xbatcher")

\* len(dp): the class defines no __len__ (the definition is commented out)
\* and neither does IterDataPipe.
Xbatcher_Len ==
    LenError(Raise("TypeError", "XbatcherSlicerIterDataPipe instance doesn't have valid length",
                   <<>>))

\* for dataarray in self.source_datapipe
Xbatcher_For ==
    /\ adapter = "XbatcherSlicer"
    /\ ForEach("name")

\* The loop body without the renaming: every input goes to the generator
\* as supplied.
Xbatcher_Name_Skip ==
    /\ adapter = "XbatcherSlicer"
    /\ pc = "name"
    /\ pc' = "generator"
    /\ UNCHANGED <<upstream, args, module, length, transform, ctor, consumer, error, calls,
                   frame>>

\* if hasattr(dataarray, "name") and dataarray.name is None:
\*     dataarray = dataarray.to_dataset(name=DATAARRAY_VARIABLE)[DATAARRAY_VARIABLE]
Xbatcher_Name ==
    /\ adapter = "XbatcherSlicer"
    /\ pc = "name"
    /\ IF frame.item.name /= NoAttr /\ frame.item.name = None
       THEN /\ calls' = Append(calls, Call("dataarray.to_dataset", Unbound, frame.item))
            /\ frame' = [frame EXCEPT !.item = [@ EXCEPT !.name = DATAARRAY_VARIABLE,
                                                         !.op = "to_dataset",
                                                         !.of = <<frame.item.id>>,
                                                         !.new = TRUE]]
       ELSE UNCHANGED <<calls, frame>>
    /\ pc' = "generator"
    /\ UNCHANGED <<upstream, args, module, length, transform, ctor, consumer, error>>

\* dataarray.batch.generator(input_dims=self.input_dims, **self.kwargs): the
\* chips are cut as the loop asks for them.
Xbatcher_Generator ==
    /\ adapter = "XbatcherSlicer"
    /\ pc = "generator"
    /\ calls' = Append(calls,
          [input_dims |-> input_dims]
             @@ CallWith("dataarray.batch.generator", frame.item, kwargs))
    /\ frame' = [frame EXCEPT !.yielded = 0]
    /\ pc' = "chips"
    /\ UNCHANGED <<upstream, args, module, length, transform, ctor, consumer, error>>

\* The k-th chip of an xarray object.
Chip(dataarray, k) ==
    [name |-> dataarray.name]
       @@ [Object(dataarray.type, k, NoAttr, "-", "-", "batch.generator",
                  <<IF dataarray.new THEN dataarray.of[1] ELSE dataarray.id>>)
             EXCEPT !.new = TRUE]

\* for chip in ...: yield chip, or on to the next input when the chips of
\* this one are used up.
Xbatcher_Chip ==
    /\ adapter = "XbatcherSlicer"
    /\ pc = "chips"
    /\ IF frame.yielded < frame.item.chips
       THEN /\ delivered' = Append(delivered, Chip(frame.item, frame.yielded + 1))
            /\ frame' = [frame EXCEPT !.yielded = @ + 1]
            /\ pc' = "suspended"
       ELSE /\ pc' = "for"
            /\ UNCHANGED <<delivered, frame>>
    /\ UNCHANGED <<upstream, args, module, length, transform, ctor, passes, requested, stops,
                   error, calls>>

(***************************************************************************)
(* XarrayCanvasIterDataPipe                                                *)
(***************************************************************************)

\* if datashader is None: raise ModuleNotFoundError
XCanvas_Init ==
    /\ adapter = "XarrayCanvas"
    /\ InitChecking("datashader")

XCanvas_Len == source_datapipe.len

\* Local variables of XarrayCanvas.__iter__.
XCanvas_Frame ==
    [taken |-> 0, item |-> Unbound, plot_width |-> 0, plot_height |-> 0,
     x_range |-> <<>>, y_range |-> <<>>]

\* for dataarray in self.source_datapipe
XCanvas_For ==
    /\ adapter = "XarrayCanvas"
    /\ ForEach("dims")

\* len(dataarray[dataarray.rio.y_dim]) used as the width.
plot_width_Y(dataarray) == dataarray.sizes[dataarray.y_dim]

\* len(dataarray[dataarray.rio.x_dim])
plot_width(dataarray) == dataarray.sizes[dataarray.x_dim]

\* len(dataarray[dataarray.rio.y_dim])
plot_height(dataarray) == dataarray.sizes[dataarray.y_dim]

\* x_dim = dataarray.rio.x_dim ... xmin, ymin, xmax, ymax =
\* dataarray.rio.bounds(); rio.x_dim raises when no spatial dimension can be
\* identified.
XCanvas_Dims ==
    /\ adapter = "XarrayCanvas"
    /\ pc = "dims"
    /\ IF ~frame.item.spatial
       THEN /\ pc' = "raised"
            /\ error' = Raise("MissingSpatialDimensionError", "dataarray.rio.x_dim",
                              <<frame.item.id>>)
            /\ UNCHANGED <<frame, calls>>
       ELSE /\ pc' = "canvas"
            /\ calls' = Append(calls, Call("dataarray.rio.bounds", Unbound, frame.item))
            /\ frame' = [frame EXCEPT
                  !.plot_width = plot_width(frame.item),
                  !.plot_height = plot_height(frame.item),
                  !.x_range = <<frame.item.bounds[1], frame.item.bounds[3]>>,
                  !.y_range = <<frame.item.bounds[2], frame.item.bounds[4]>>]
            /\ UNCHANGED error
    /\ UNCHANGED <<upstream, args, module, length, transform, ctor, consumer>>

\* canvas = datashader.Canvas(plot_width=..., plot_height=..., x_range=...,
\* y_range=..., **self.kwargs); canvas.crs = dataarray.rio.crs; yield canvas
XCanvas_Canvas ==
    /\ adapter = "XarrayCanvas"
    /\ pc = "canvas"
    /\ calls' = Append(calls, CallWith("datashader.Canvas", frame.item, kwargs))
    /\ delivered' = Append(delivered,
          [plot_width |-> frame.plot_width, plot_height |-> frame.plot_height,
           x_range |-> frame.x_range, y_range |-> frame.y_range, kwargs |-> kwargs]
             @@ [Returned("datashader.Canvas", "datashader.Canvas", frame.item)
                   EXCEPT !.crs = frame.item.crs])
    /\ pc' = "suspended"
    /\ UNCHANGED <<upstream, args, module, length, transform, ctor, passes, requested, stops,
                   frame, error>>

(***************************************************************************)
(* The consumer.                                                           *)
(***************************************************************************)

\* The adapters of the model.
Adapters == {"DatashaderRasterizer", "GeoPandasRectangleClipper",
             "RasterioRasterizer", "PyogrioReader", "LaspyReader",
             "PySTACItemReader", "RioXarrayReader", "XpySTACAssetReader",
             "StackSTACStacker", "StackSTACMosaicker", "PySTACAPISearcher",
             "PySTACAPIItemLister", "XbatcherSlicer", "XarrayCanvas"}

\* The adapters that make one library call per input and yield its result.
OneToOne == {"RioXarrayReader", "PyogrioReader", "LaspyReader", "PySTACItemReader",
             "XpySTACAssetReader", "PySTACAPISearcher", "StackSTACStacker",
             "StackSTACMosaicker", "XarrayCanvas"}

\* The adapters that yield several sub-items per input.
Flatteners == {"PySTACAPIItemLister", "XbatcherSlicer"}

\* Local variables of an adapter's generator before its first statement.
Frame(a) ==
    CASE a = "DatashaderRasterizer" -> DS_Frame
      [] a = "GeoPandasRectangleClipper" -> Clip_Frame
      [] a = "RasterioRasterizer" -> Rio_Frame
      [] a = "PyogrioReader" -> Pyogrio_Frame
      [] a = "PySTACAPISearcher" -> Searcher_Frame
      [] a = "XarrayCanvas" -> XCanvas_Frame
      [] a \in Flatteners -> FlattenFrame
      [] OTHER -> LoopFrame

\* The first statement of an adapter's generator.
Entry(a) ==
    CASE a = "DatashaderRasterizer" -> "list"
      [] a = "GeoPandasRectangleClipper" -> "list"
      [] a = "RasterioRasterizer" -> "fill"
      [] a = "PySTACAPISearcher" -> "open"
      [] OTHER -> "for"

\* The statement a generator continues at after a yield: the next round of
\* the loop the yield is in.
Resume(a) ==
    CASE a = "DatashaderRasterizer" -> "zip"
      [] a = "GeoPandasRectangleClipper" -> "for"
      [] a = "RasterioRasterizer" -> "zip"
      [] a = "PySTACAPIItemLister" -> "yield from"
      [] a = "XbatcherSlicer" -> "chips"
      [] OTHER -> "for"

\* len(datapipe), for the adapters whose __len__ returns a number without
\* iterating anything.
Length(a) ==
    CASE a = "DatashaderRasterizer" -> DS_Len
      [] a = "GeoPandasRectangleClipper" -> Clip_Len
      [] a = "RasterioRasterizer" -> Rio_Len
      [] a = "PyogrioReader" -> Pyogrio_Len
      [] a = "LaspyReader" -> Laspy_Len
      [] a = "PySTACItemReader" -> PySTACItem_Len
      [] a = "RioXarrayReader" -> RioXarray_Len
      [] a = "XpySTACAssetReader" -> XpySTAC_Len
      [] a = "StackSTACStacker" -> Stacker_Len
      [] a = "StackSTACMosaicker" -> Mosaicker_Len
      [] a = "PySTACAPISearcher" -> Searcher_Len
      [] a = "XarrayCanvas" -> XCanvas_Len

\* A generator that is not inside a next() call.
Parked == {"none", "created", "suspended", "finished", "raised"}

\* iter(dp) that runs the new generator up to its first statement at once.
Iter_Eager ==
    /\ obj = "built"
    /\ pc \in Parked
    /\ passes < MaxPasses
    /\ passes' = passes + 1
    /\ pc' = Entry(adapter)
    /\ frame' = Frame(adapter)
    /\ requested' = 0
    /\ delivered' = <<>>
    /\ error' = NoError
    /\ stops' = 0
    /\ calls' = <<>>
    /\ UNCHANGED <<upstream, args, module, length, transform, ctor>>

\* iter(dp): a new generator, which has not run yet.
Iter ==
    /\ obj = "built"
    /\ pc \in Parked
    /\ passes < MaxPasses
    /\ passes' = passes + 1
    /\ pc' = "created"
    /\ frame' = Frame(adapter)
    /\ requested' = 0
    /\ delivered' = <<>>
    /\ error' = NoError
    /\ stops' = 0
    /\ calls' = <<>>
    /\ UNCHANGED <<upstream, args, module, length, transform, ctor>>

\* next(it) on a generator that can still run.
Next_ ==
    /\ pc \in {"created", "suspended"}
    /\ requested' = requested + 1
    /\ pc' = IF pc = "created" THEN Entry(adapter) ELSE Resume(adapter)
    /\ UNCHANGED <<upstream, args, module, length, transform, ctor, passes, delivered, stops,
                   frame, error, calls>>

\* next(it) on a generator that has returned or raised: StopIteration.
NextStop ==
    /\ pc \in {"finished", "raised"}
    /\ stops < MaxStops
    /\ stops' = stops + 1
    /\ UNCHANGED <<upstream, args, module, length, transform, ctor, passes, requested, delivered,
                   pc, frame, error, calls>>

(***************************************************************************)
(* The specification.                                                      *)
(***************************************************************************)

\* The datapipes of kind k with a length the model bounds.
DataPipes(k) == {DataPipe(k, n) : n \in 0..MaxLen}

\* The same datapipes, and datapipes that report no length.
AnyDataPipes(k) == DataPipes(k) \cup {Unsized(dp) : dp \in DataPipes(k)}

Init ==
    /\ adapter \in Adapters
    /\ source_datapipe \in
          CASE adapter = "DatashaderRasterizer" -> AnyDataPipes("canvas")
            [] adapter = "GeoPandasRectangleClipper" -> DataPipes("layer")
            [] adapter = "RasterioRasterizer" -> DataPipes("shapes")
            [] adapter = "PyogrioReader" -> DataPipes("locator")
            [] adapter = "LaspyReader" -> DataPipes("stream")
            [] adapter = "PySTACItemReader" -> DataPipes("locator")
            [] adapter = "RioXarrayReader" -> DataPipes("locator")
            [] adapter = "XpySTACAssetReader" -> DataPipes("asset")
            [] adapter = "StackSTACStacker" -> DataPipes("stac_items")
            [] adapter = "StackSTACMosaicker" -> DataPipes("datacube")
            [] adapter = "PySTACAPISearcher" -> DataPipes("query")
            [] adapter = "PySTACAPIItemLister" -> DataPipes("search")
            [] adapter = "XbatcherSlicer" -> DataPipes("chippable")
            [] adapter = "XarrayCanvas" -> DataPipes("grid")
    /\ vector_datapipe \in
          IF adapter = "DatashaderRasterizer" THEN AnyDataPipes("vector") ELSE {NoDataPipe}
    /\ mask_datapipe \in
          IF adapter = "GeoPandasRectangleClipper" THEN DataPipes("mask")
          ELSE {NoDataPipe}
    /\ out \in
          IF adapter = "RasterioRasterizer"
          THEN DataPipes("template") \cup {Rio_DefaultOut}
          ELSE {NoDataPipe}
    /\ agg \in IF adapter = "DatashaderRasterizer" THEN Aggs ELSE {None}
    /\ out_shape \in IF adapter = "RasterioRasterizer" THEN {None, "(h, w)"} ELSE {None}
    /\ transform \in IF adapter = "RasterioRasterizer" THEN Transforms ELSE {IDENTITY}
    /\ debug \in IF adapter = "GeoPandasRectangleClipper" THEN BOOLEAN ELSE {TRUE}
    /\ kwargs \in IF adapter \in OneToOne THEN Kwargs ELSE {NoKwargs}
    /\ engine \in IF adapter = "XpySTACAssetReader" THEN {"stac", "rasterio"} ELSE {None}
    /\ missing \in SUBSET Libs(adapter)
    /\ eager \in IF adapter = "XpySTACAssetReader" THEN BOOLEAN ELSE {TRUE}
    /\ module = NotImported
    /\ length = <<>>
    /\ obj = "new"
    /\ ctor_error = NoError
    /\ passes = 0
    /\ pc = "none"
    /\ frame = Frame(adapter)
    /\ requested = 0
    /\ delivered = <<>>
    /\ error = NoError
    /\ stops = 0
    /\ calls = <<>>

Next ==
    \/ Import
    \/ DS_Init
    \/ Clip_Init
    \/ Rio_Init
    \/ Rio_Sibling
    \/ Pyogrio_Init
    \/ Laspy_Init
    \/ PySTACItem_Init
    \/ RioXarray_Init
    \/ XpySTAC_Init
    \/ Stacker_Init
    \/ Mosaicker_Init
    \/ Searcher_Init
    \/ Lister_Init
    \/ Xbatcher_Init
    \/ XCanvas_Init
    \/ Iter
    \/ Next_
    \/ NextStop
    \/ DS_ListNext
    \/ DS_ListPop
    \/ DS_Zip
    \/ DS_CanvasCrs
    \/ DS_VectorCrs
    \/ DS_Convert
    \/ DS_Burn
    \/ DS_Astype
    \/ DS_SetCrs
    \/ DS_Reproject
    \/ DS_Yield
    \/ Clip_ListNext
    \/ Clip_ListPop
    \/ Clip_For
    \/ Clip_Crs
    \/ Clip_Clip
    \/ Rio_FillValue
    \/ Rio_Zip
    \/ Rio_Template
    \/ Rio_Rasterize
    \/ Pyogrio_For
    \/ Pyogrio_Read
    \/ Laspy_For
    \/ Laspy_Read
    \/ PySTACItem_For
    \/ PySTACItem_Read
    \/ RioXarray_For
    \/ RioXarray_Read
    \/ XpySTAC_For
    \/ XpySTAC_Read
    \/ Stacker_For
    \/ Stacker_Stack
    \/ Mosaicker_For
    \/ Mosaicker_Mosaic
    \/ Searcher_Open
    \/ Searcher_For
    \/ Searcher_Search
    \/ Lister_For
    \/ Lister_Items
    \/ Lister_YieldFrom
    \/ Lister_Len
    \/ Xbatcher_For
    \/ Xbatcher_Name
    \/ Xbatcher_Generator
    \/ Xbatcher_Chip
    \/ XCanvas_For
    \/ XCanvas_Dims
    \/ XCanvas_Canvas

Spec == Init /\ [][Next]_vars

(***************************************************************************)
(* Properties of DatashaderRasterizer.                                     *)
(***************************************************************************)
DS == adapter = "DatashaderRasterizer"

\* The calls made while serving the current next() call.
StepCalls == {k \in DOMAIN calls : calls[k].pull = requested}

BurnFns == {"canvas.points", "canvas.line", "canvas.polygons"}

StepBurns == {k \in StepCalls : calls[k].fn \in BurnFns}

\* The positions of the generator after the given statement of the loop body.
AfterCanvasCrs == {"vector_crs", "convert", "burn", "astype", "set_crs", "reproject",
                   "yield", "suspended", "raised"}

AfterVectorCrs == AfterCanvasCrs \ {"vector_crs"}

AfterConvert == AfterVectorCrs \ {"convert"}

AfterBurn == AfterConvert \ {"burn"}

\* The generator holds a (canvas, vector) pair.
InPair == DS /\ frame.canvas.type = "Canvas" /\ frame.vector.type = "GeoDataFrame"

\* The canvas and the vector layer of the pair in hand, as the upstream
\* datapipes first handed them out.
canvas0 == source_datapipe.orig[frame.canvas.id]

vector0 == vector_datapipe.orig[frame.vector.id]

\* Both upstream datapipes report a length.
Sized == vector_datapipe.sized /\ source_datapipe.sized

\* C1: with spatialpandas installed, whenever the vector count is neither 1
\* nor the canvas count, the constructor has raised ValueError ("Unmatched lengths") naming both
\* lengths, no adapter exists, no pass was opened and no item was pulled from
\* either upstream datapipe.
C1_UnmatchedLengthsRaise ==
    (DS /\ obj /= "new" /\ "spatialpandas" \notin missing /\ Sized
        /\ vector_datapipe.len /= 1
        /\ vector_datapipe.len /= source_datapipe.len)
    => /\ obj = "failed"
       /\ ctor_error = Raise("ValueError", "Unmatched lengths",
                             <<source_datapipe.len, vector_datapipe.len>>)
       /\ passes = 0 /\ pc = "none"
       /\ source_datapipe.pulls = 0 /\ vector_datapipe.pulls = 0
       /\ source_datapipe.iters = 0 /\ vector_datapipe.iters = 0

\* C1 witness: one canvas and two vector layers, construction failed.
C1_Witness ==
    /\ DS /\ obj = "failed" /\ "spatialpandas" \notin missing
    /\ source_datapipe.len = 1 /\ vector_datapipe.len = 2

\* C2: with spatialpandas installed, M >= 1 canvases and N = 1 or N = M
\* vector layers the constructor succeeds, len() is M, and a finished pass
\* has yielded M rasters, the i-th burned on the i-th canvas.
C2_ValidPairingYieldsM ==
    (DS /\ obj /= "new" /\ "spatialpandas" \notin missing /\ Sized
        /\ source_datapipe.len >= 1
        /\ (vector_datapipe.len = 1 \/ vector_datapipe.len = source_datapipe.len))
    => /\ obj = "built"
       /\ DS_Len = source_datapipe.len
       /\ pc = "finished" =>
            /\ Len(delivered) = source_datapipe.len
            /\ \A i \in DOMAIN delivered : delivered[i].of[1] = i

\* C3: once the step is past the canvas check with a canvas that was handed
\* out without a crs (absent or None), the generator has raised
\* AttributeError ("Missing crs information for datashader.Canvas") about
\* that canvas, whatever the vector's crs, and has made no library call (no
\* read of vector.crs, no to_crs, no conversion, no burn) for that step.
C3_CanvasMissingCrs ==
    (InPair /\ pc \in AfterCanvasCrs /\ canvas0.crs \in {NoAttr, None})
    => /\ pc = "raised"
       /\ error = Raise("AttributeError", "Missing crs information for datashader.Canvas",
                        <<"Canvas", frame.canvas.id>>)
       /\ StepCalls = {}
       /\ Len(delivered) = requested - 1

\* C3 witness: the canvas error was raised for a pair in which the vector
\* layer has no crs either.
C3_Witness ==
    /\ InPair /\ pc = "raised"
    /\ canvas0.crs = NoAttr /\ vector0.crs \in {NoAttr, None}
    /\ error.msg = "Missing crs information for datashader.Canvas"

\* C4: once the step is past the reprojection with a canvas that carries a
\* CRS and a vector layer that was handed out without one (absent or None),
\* the generator has raised AttributeError ("Missing crs information for
\* input") about that layer, and no burn was called for the pair.
C4_VectorMissingCrs ==
    (InPair /\ pc \in AfterVectorCrs /\ canvas0.crs \in CRSs
            /\ vector0.crs \in {NoAttr, None})
    => /\ pc = "raised"
       /\ error = Raise("AttributeError", "Missing crs information for input",
                        <<"GeoDataFrame", frame.vector.id>>)
       /\ StepBurns = {}
       /\ Len(delivered) = requested - 1

\* C4 witness: the vector error was raised for a layer whose crs is None.
C4_Witness ==
    /\ InPair /\ pc = "raised" /\ canvas0.crs \in CRSs /\ vector0.crs = None
    /\ error.msg = "Missing crs information for input"

\* The geometry types of one supported base type, and the burn of each.
Supported == {"Point", "MultiPoint", "LineString", "MultiLineString",
              "Polygon", "MultiPolygon"}

BurnOf(geom) ==
    IF geom \in {"Point", "MultiPoint"} THEN "canvas.points"
    ELSE IF geom \in {"LineString", "MultiLineString"} THEN "canvas.line"
    ELSE "canvas.polygons"

\* The pair in hand got through both CRS checks and the conversion step.
CrsResolved ==
    InPair /\ pc \in AfterConvert /\ canvas0.crs \in CRSs /\ vector0.crs \in CRSs

\* C5: for a pair that got through the CRS checks, a layer that is not of
\* one supported base type has made the step raise NotImplementedError
\* ("Unsupported geometry type(s)") naming the types, with no burn and no
\* raster yielded for the pair; for a layer of one supported base type the
\* step has not raised NotImplementedError and, once past the dispatch, has
\* made exactly one burn call, of the kind matching the base type.
C5_GeometryDispatch ==
    CrsResolved =>
       IF vector0.geom \notin Supported
       THEN /\ pc = "raised"
            /\ error = Raise("NotImplementedError", "Unsupported geometry type(s)",
                             <<vector0.geom>>)
            /\ StepBurns = {}
            /\ Len(delivered) = requested - 1
       ELSE /\ error.type /= "NotImplementedError"
            /\ pc \in AfterBurn =>
                 /\ Cardinality(StepBurns) = 1
                 /\ \A k \in StepBurns : /\ calls[k].fn = BurnOf(vector0.geom)
                                         /\ calls[k].arg.id = frame.vector.id

\* C5 witness: NotImplementedError for a GeometryCollection layer.
C5_Witness ==
    /\ CrsResolved /\ vector0.geom = "GeometryCollection"
    /\ error.type = "NotImplementedError"

\* C6: every burn is given a layer in the CRS of its canvas; the layer was
\* reprojected (one to_crs call in that step) exactly when its own CRS
\* differed from the canvas CRS; what is reprojected is a vector layer, never
\* a canvas, and the canvas is the upstream object unchanged; every yielded
\* raster has the CRS of the canvas it was burned on.
C6_ReprojectVectorToCanvas ==
    DS =>
    /\ \A k \in DOMAIN calls :
          LET c == calls[k] IN
          /\ c.fn \in BurnFns =>
               /\ c.canvas.crs \in CRSs
               /\ c.arg.crs = c.canvas.crs
               /\ c.arg.geom = vector_datapipe.orig[c.arg.id].geom
               /\ Cardinality({j \in DOMAIN calls :
                                  /\ calls[j].pull = c.pull
                                  /\ calls[j].fn = "vector.to_crs"})
                    = IF vector_datapipe.orig[c.arg.id].crs = c.canvas.crs THEN 0 ELSE 1
          /\ c.fn = "vector.to_crs" => c.arg.type = "GeoDataFrame"
          /\ c.canvas.type = "Canvas" => c.canvas = source_datapipe.items[c.canvas.id]
    /\ \A i \in DOMAIN delivered :
          /\ delivered[i].crs \in CRSs
          /\ delivered[i].crs = source_datapipe.orig[delivered[i].of[1]].crs

\* C6 witness: a raster was yielded for a layer whose CRS differed from the
\* canvas CRS.
C6_Witness ==
    /\ InPair /\ pc = "suspended" /\ Len(delivered) = 1
    /\ vector0.crs \in CRSs /\ vector0.crs /= canvas0.crs
    /\ delivered[1].crs = canvas0.crs

\* C7: no yielded raster is boolean: a raster burned with the reduction
\* "any" (boolean) is yielded as uint8 and any other keeps the data type of
\* its reduction; the raster given to set_crs and to reproject is never
\* boolean.
C7_NoBooleanRaster ==
    DS =>
    /\ \A i \in DOMAIN delivered :
          LET r == delivered[i]
              reduction == IF agg /= None THEN agg
                           ELSE IF r.op = "points" THEN "count" ELSE "any"
          IN /\ r.dtype /= "bool"
             /\ r.dtype = IF reduction = "any" THEN "uint8" ELSE "uint32"
    /\ \A k \in DOMAIN calls :
          calls[k].fn \in {"raster.rio.set_crs", "raster.rio.reproject"}
             => calls[k].arg.dtype /= "bool"
    /\ pc \in {"set_crs", "reproject", "yield"} => frame.raster.dtype /= "bool"

\* C7 witness: a line layer burned with the default reduction was yielded
\* as uint8.
C7_Witness ==
    /\ DS /\ agg = None /\ Len(delivered) = 1
    /\ delivered[1].op = "line" /\ delivered[1].dtype = "uint8"

(***************************************************************************)
(* Properties of every adapter.                                            *)
(***************************************************************************)
\* The library call each one-to-one adapter wraps.
Wrapped ==
    [a \in OneToOne |->
        CASE a = "RioXarrayReader" -> "rioxarray.open_rasterio"
          [] a = "PyogrioReader" -> "pyogrio.read_dataframe"
          [] a = "LaspyReader" -> "laspy.read"
          [] a = "PySTACItemReader" -> "pystac.Item.from_file"
          [] a = "XpySTACAssetReader" -> "xr.open_dataset"
          [] a = "PySTACAPISearcher" -> "catalog.search"
          [] a = "StackSTACStacker" -> "stackstac.stack"
          [] a = "StackSTACMosaicker" -> "stackstac.mosaic"
          [] a = "XarrayCanvas" -> "datashader.Canvas"]

\* A library call that raises.
Fails(c) ==
    \/ c.fn \in {Wrapped[a] : a \in OneToOne} /\ ~c.arg.readable
    \/ c.fn = "spatialpandas.GeoDataFrame" /\ GeometryDtype(c.arg.geom) = None
    \/ c.fn = "vector.crs" /\ c.arg.crs = NoAttr
    \/ c.fn \in {"vector.to_crs", "geodataframe.to_crs", "_geoseries.to_crs"}
          /\ (c.arg.crs = None \/ c.canvas.crs = None)
    \/ c.fn = "rasterio.features.rasterize"
          /\ RasterizeRaises(c.arg, c.canvas, out_shape)

\* C8: in every adapter, a pass in which an error was raised has delivered
\* exactly the items requested before the failing next() call, and that stays
\* so under further next() calls; a library call that raises is the last
\* call of its pass, is made once for the next() call it serves, and leaves
\* the generator raised at that next() call with the items before it
\* delivered.
C8_ErrorAbortsPass ==
    /\ error /= NoError <=> pc = "raised"
    /\ pc = "raised" => requested >= 1 /\ Len(delivered) = requested - 1
    /\ \A k \in DOMAIN calls :
          Fails(calls[k]) =>
             /\ pc = "raised"
             /\ k = Len(calls)
             /\ requested = calls[k].pull
             /\ Len(delivered) = calls[k].pull - 1
             /\ \A j \in DOMAIN calls :
                   calls[j].pull = calls[k].pull /\ calls[j].fn = calls[k].fn => j = k

\* C8 witness: PyogrioReader delivered the first file, raised on the second,
\* and was asked for more afterwards.
C8_Witness ==
    /\ adapter = "PyogrioReader" /\ pc = "raised" /\ stops = 1
    /\ requested = 2 /\ Len(delivered) = 1
    /\ error.type = "DataSourceError" /\ Fails(calls[Len(calls)])

\* The upstream datapipes of the adapter.
Upstreams == <<source_datapipe, vector_datapipe, mask_datapipe, out>>

\* The objects an adapter makes are new objects: the rasters of
\* DatashaderRasterizer, the clipped layers of GeoPandasRectangleClipper
\* (each paired with the mask object itself), the arrays of
\* RasterioRasterizer other than those the given predicate allows, and the
\* layer an adapter works on where it is not the upstream layer as handed
\* out.
ResultsAreNew(Allowed(_)) ==
    /\ \A i \in DOMAIN delivered :
          CASE adapter = "DatashaderRasterizer" -> delivered[i].new
            [] adapter = "GeoPandasRectangleClipper" ->
                  /\ delivered[i][1].new
                  /\ delivered[i][2] = mask_datapipe.orig[delivered[i][2].id]
            [] adapter = "RasterioRasterizer" -> delivered[i].new \/ Allowed(delivered[i])
            [] adapter = "RioXarrayReader" ->
                  /\ delivered[i][2].new
                  /\ delivered[i][1] = source_datapipe.orig[delivered[i][1].id]
            [] OTHER -> delivered[i].new
    /\ adapter = "DatashaderRasterizer" /\ pc = "convert"
          => frame.vector.new \/ frame.vector = vector_datapipe.orig[frame.vector.id]
    /\ adapter = "GeoPandasRectangleClipper" /\ pc = "clip"
          => \/ frame._geodataframe.new
             \/ frame._geodataframe = source_datapipe.orig[frame._geodataframe.id]
    /\ adapter = "RasterioRasterizer" /\ pc = "rasterize"
                                      /\ frame._geoseries.type = "GeoDataFrame"
          => \/ frame._geoseries.new
             \/ frame._geoseries = source_datapipe.orig[frame._geoseries.id]

NoObject(x) == FALSE

BurnedTemplate(x) ==
    /\ adapter = "RasterioRasterizer"
    /\ x.type = "ndarray" /\ ~x.new /\ x.op = "rasterize"
    /\ x.id \in DOMAIN out.items /\ out.items[x.id] = x

Clip == adapter = "GeoPandasRectangleClipper"

\* C10: once GeoPandasRectangleClipper's constructor has run (geopandas
\* being installed), with a vector
\* datapipe of a length other than 1 it has raised NotImplementedError ("The
\* vector datapipe's length can only be (1)"), whatever the length of the
\* mask datapipe, no adapter exists and nothing was pulled from or opened on
\* either upstream; with a vector datapipe of length 1 it has built the
\* adapter without an error.
C10_ClipperNeedsOneVector ==
    (Clip /\ obj /= "new" /\ "geopandas" \notin missing) =>
       IF source_datapipe.len /= 1
       THEN /\ obj = "failed"
            /\ ctor_error = Raise("NotImplementedError",
                                  "The vector datapipe's length can only be (1)",
                                  <<source_datapipe.len>>)
            /\ passes = 0 /\ pc = "none"
            /\ source_datapipe.pulls = 0 /\ mask_datapipe.pulls = 0
            /\ source_datapipe.iters = 0 /\ mask_datapipe.iters = 0
       ELSE /\ obj = "built"
            /\ ctor_error = NoError

\* C10 witness: construction failed with an empty vector datapipe and two
\* masks.
C10_Witness ==
    /\ Clip /\ obj = "failed" /\ "geopandas" \notin missing
    /\ source_datapipe.len = 0 /\ mask_datapipe.len = 2

\* The to_crs calls made while serving the i-th next() call.
ReprojectionsAt(i) ==
    {k \in DOMAIN calls : calls[k].pull = i /\ calls[k].fn = "geodataframe.to_crs"}

\* C11: a GeoPandasRectangleClipper built over one vector layer and K masks
\* reports the length K; the i-th pair it yields holds the i-th mask object
\* itself and the vector layer clipped to the bounds of that mask; a pass
\* that ran to its end has yielded K pairs.
C11_ClipperYieldsPairPerMask ==
    (Clip /\ obj = "built") =>
       /\ source_datapipe.len = 1
       /\ Clip_Len = mask_datapipe.len
       /\ \A i \in DOMAIN delivered :
             /\ delivered[i][2] = mask_datapipe.items[i]
             /\ delivered[i][2] = mask_datapipe.orig[i]
             /\ delivered[i][1].type = "GeoDataFrame"
             /\ delivered[i][1].op = "clip"
             /\ delivered[i][1].of = <<source_datapipe.items[1].id, i>>
             /\ \E k \in DOMAIN calls :
                   /\ calls[k].fn = "raster.rio.bounds"
                   /\ calls[k].pull = i /\ calls[k].arg = mask_datapipe.items[i]
       /\ pc = "finished" => Len(delivered) = mask_datapipe.len

\* C11 witness: a pass over two masks ran to its end.
C11_Witness ==
    /\ Clip /\ pc = "finished" /\ mask_datapipe.len = 2 /\ Len(delivered) = 2
    /\ delivered[2][2].id = 2

\* C12: every clipped layer GeoPandasRectangleClipper yields has the CRS of
\* the mask it is paired with; the layer was reprojected (one to_crs call in
\* that step, made on the vector layer as the upstream handed it out) exactly
\* when its CRS differed from the mask's.
C12_ClippedCrsIsMaskCrs ==
    Clip =>
       \A i \in DOMAIN delivered :
          LET layer == source_datapipe.orig[1]
          IN /\ delivered[i][1].crs = delivered[i][2].crs
             /\ Cardinality(ReprojectionsAt(i))
                   = IF layer.crs = delivered[i][2].crs THEN 0 ELSE 1
             /\ \A k \in ReprojectionsAt(i) : calls[k].arg = layer


(***************************************************************************)
(* Lengths and connections of the STAC and tiling adapters.                *)
(***************************************************************************)
Slicer == adapter = "XbatcherSlicer"

\* C13 as stated: len() of a constructed XbatcherSlicer gives a number, and
\* that number is the number of chips a full pass yields.
C13_SlicerLengthIsChipCount ==
    (Slicer /\ obj = "built") =>
       /\ Xbatcher_Len.error = NoError
       /\ pc = "finished" => Xbatcher_Len.value = Len(delivered)

Searcher == adapter = "PySTACAPISearcher"

\* C14 as stated: no catalog is opened while a pass runs, and the handles of
\* every pass come from one and the same connection.
C14_CatalogOpenedAtConstruction ==
    Searcher =>
       /\ Opens = {}
       /\ \A i \in DOMAIN delivered : delivered[i].client = Client(1, 0)

\* C14: constructing PySTACAPISearcher opens no catalog; each pass
\* opens its own connection, exactly once, as the first thing its first
\* next() call does, before any query is taken from upstream, with the stored
\* catalog URL and options; every handle the pass yields comes from that
\* connection, and the only other library calls of the pass are the
\* catalog.search calls, so no result item is fetched.
C14_CatalogOpenedOncePerPass ==
    Searcher =>
       /\ pc \in {"none", "created", "open"} => calls = <<>> /\ frame.taken = 0
       /\ passes = 0 => source_datapipe.pulls = 0
       /\ pc \notin {"none", "created", "open"} =>
             /\ Cardinality(Opens) = 1
             /\ calls[1] = [CallWith("pystac_client.Client.open", catalog_url, kwargs)
                               EXCEPT !.pull = 1]
             /\ frame.catalog = Client(passes, 0)
       /\ \A k \in DOMAIN calls :
             calls[k].fn \in {"pystac_client.Client.open", "catalog.search"}
       /\ \A i \in DOMAIN delivered :
             /\ delivered[i].type = "pystac_client.ItemSearch"
             /\ delivered[i].client = Client(passes, 0)

C14_Witness ==
    /\ Searcher /\ passes = 2 /\ pc = "finished"
    /\ Len(delivered) = 2 /\ delivered[2].client = Client(2, 0)

Lister == adapter = "PySTACAPIItemLister"

\* C15: every len() of PySTACAPIItemLister returned the sum of matched() over
\* all upstream handles, having called matched() once on each handle in
\* upstream order and nothing else (items() is not called).
C15_ListerLengthIsSumOfMatched ==
    Lister =>
       \A j \in DOMAIN length :
          /\ length[j].error = NoError
          /\ Len(source_datapipe.items) = source_datapipe.len
          /\ length[j].value =
                Sum([i \in 1..source_datapipe.len |-> source_datapipe.items[i].matched],
                    source_datapipe.len)
          /\ Len(length[j].calls) = source_datapipe.len
          /\ \A i \in DOMAIN length[j].calls :
                length[j].calls[i] =
                   [fn |-> "item_search.matched", arg |-> source_datapipe.items[i]]

\* A finished pass that yielded items, with a len() that gave another number.
C15_Witness ==
    /\ Lister /\ pc = "finished" /\ Len(length) = 1
    /\ Len(delivered) = 2 /\ length[1].value = 3

(***************************************************************************)
(* Optional libraries.                                                     *)
(***************************************************************************)
\* The optional library an adapter's class uses, and checks for in __init__.
Wraps(a) ==
    CASE a = "DatashaderRasterizer" -> {"spatialpandas"}
      [] a = "XarrayCanvas" -> {"datashader"}
      [] a = "XpySTACAssetReader" -> {"xpystac"}
      [] OTHER -> Libs(a)

\* C16 as stated: with or without its optional library the adapter's module
\* imports; once the constructor has run, it has failed with
\* ModuleNotFoundError naming the library, with nothing pulled and no pass
\* opened, exactly when the library is absent.
C16_MissingLibraryFailsConstruction ==
    /\ module.state /= "failed"
    /\ \A lib \in Wraps(adapter) :
          obj /= "new" =>
             IF lib \in Nones
             THEN /\ obj = "failed"
                  /\ ctor_error = ModuleNotFoundError(lib)
                  /\ \A n \in DOMAIN Upstreams :
                        Upstreams[n].pulls = 0 /\ Upstreams[n].iters = 0
             ELSE ctor_error.type /= "ModuleNotFoundError"

XpySTAC == adapter = "XpySTACAssetReader"

\* C17 as stated: with engine "rasterio" and xpystac not installed, the
\* module imports, the constructor succeeds and a full pass yields one
\* opened dataset per input.
C17_OtherEngineNeedsNoXpystac ==
    (XpySTAC /\ engine = "rasterio" /\ "xpystac" \in missing) =>
       /\ module.state /= "failed"
       /\ obj /= "new" => obj = "built"
       /\ pc = "finished" => Len(delivered) = source_datapipe.len

(***************************************************************************)
(* The one-to-one adapters.                                                *)
(***************************************************************************)
\* The wrapped calls made so far in the running pass, in order.
WrappedCalls == SelectSeq(calls, LAMBDA c : c.fn = Wrapped[adapter])

\* The i-th object yielded in the running pass (RioXarrayReader yields it
\* paired with the locator).
Result(i) == IF adapter = "RioXarrayReader" THEN delivered[i][2] ELSE delivered[i]

\* A one-to-one adapter reports its upstream's length; the j-th wrapped call
\* of a pass is made in the j-th next() call, on the j-th upstream item as
\* handed out, with the options the given operator names; the i-th result is
\* a new object made from the i-th upstream item; a pass that ends normally
\* has made one call and yielded one result per upstream item.
OneToOneShape(Options(_)) ==
    (adapter \in OneToOne /\ obj = "built") =>
       /\ Length(adapter) = source_datapipe.len
       /\ Len(WrappedCalls) <= frame.taken
       /\ \A j \in DOMAIN WrappedCalls :
             /\ WrappedCalls[j].pull = j
             /\ WrappedCalls[j].arg = source_datapipe.orig[j]
             /\ WrappedCalls[j].kwargs = Options(adapter)
             /\ XpySTAC => WrappedCalls[j].engine = engine
       /\ Len(delivered) <= Len(WrappedCalls)
       /\ \A i \in DOMAIN delivered :
             /\ Result(i).new
             /\ Result(i).of = <<i>>
             /\ adapter = "RioXarrayReader" =>
                   /\ delivered[i][1] = source_datapipe.orig[i]
                   /\ delivered[i][1] = source_datapipe.items[i]
       /\ pc = "finished" =>
             /\ Len(WrappedCalls) = source_datapipe.len
             /\ Len(delivered) = source_datapipe.len

\* The stored keyword options.
StoredOptions(a) == kwargs

PassedOptions(a) == IF a = "PySTACAPISearcher" THEN NoKwargs ELSE kwargs

XCanvas == adapter = "XarrayCanvas"

\* C19: the i-th canvas XarrayCanvas yields is a new datashader.Canvas made
\* from the i-th upstream grid: its plot_width is the number of coordinates
\* along the grid's x dimension, its plot_height the number along its y
\* dimension, its x_range (xmin, xmax) and y_range (ymin, ymax) of the grid's
\* bounds, its crs the grid's rio.crs (None included); a pass raises only at
\* a grid without spatial dimensions, with the lookup's own error, having
\* yielded a canvas for every grid before it.
C19_CanvasMatchesGrid ==
    XCanvas =>
       /\ \A i \in DOMAIN delivered :
             LET grid == source_datapipe.orig[i]
                 canvas == delivered[i]
             IN /\ grid.spatial
                /\ canvas.type = "datashader.Canvas" /\ canvas.new
                /\ canvas.of = <<i>>
                /\ canvas.plot_width = grid.sizes[grid.x_dim]
                /\ canvas.plot_height = grid.sizes[grid.y_dim]
                /\ canvas.x_range = <<grid.bounds[1], grid.bounds[3]>>
                /\ canvas.y_range = <<grid.bounds[2], grid.bounds[4]>>
                /\ canvas.crs = grid.crs
       /\ pc = "raised" =>
             /\ ~source_datapipe.orig[frame.taken].spatial
             /\ error = Raise("MissingSpatialDimensionError", "dataarray.rio.x_dim",
                              <<frame.taken>>)
             /\ Len(delivered) = frame.taken - 1
             /\ requested = frame.taken
       /\ pc = "suspended" => Len(delivered) = frame.taken
       /\ pc = "finished" => Len(delivered) = source_datapipe.len

\* A canvas without CRS was yielded, then a grid without spatial dimensions
\* ended the pass.
C19_Witness ==
    /\ XCanvas /\ pc = "raised" /\ Len(delivered) = 1
    /\ delivered[1].crs = None /\ delivered[1].plot_width = 2

(***************************************************************************)
(* Demand-driven iteration.                                                *)
(***************************************************************************)
\* The first pass of an adapter whose len() was not called: what the
\* upstreams have handed out so far, they handed out in this pass.
FirstPass == passes <= 1 /\ length = <<>>

\* The upstream whose items an adapter's results stand for one by one: the
\* canvases of DatashaderRasterizer, the masks of GeoPandasRectangleClipper,
\* the templates of RasterioRasterizer, the only upstream of the others.
Primary ==
    CASE adapter = "DatashaderRasterizer" -> source_datapipe
      [] adapter = "GeoPandasRectangleClipper" -> mask_datapipe
      [] adapter = "RasterioRasterizer" -> out
      [] OTHER -> source_datapipe

\* C20 as stated: nothing is pulled from any upstream before the first
\* next() call, and in a pass the primary upstream has handed out no more
\* items than the consumer has requested.
C20_PullsNeverExceedRequests ==
    FirstPass =>
       /\ requested = 0 => \A n \in DOMAIN Upstreams :
                              Upstreams[n].pulls = 0 /\ Upstreams[n].items = <<>>
       /\ Primary.pulls <= requested
       /\ Len(Primary.items) <= requested

\* The upstream inputs taken so far by a flattening adapter's pass that have
\* no sub-item.
Empties ==
    {i \in 1..frame.taken :
        IF Lister THEN source_datapipe.orig[i].items = 0
        ELSE source_datapipe.orig[i].chips = 0}

\* The sub-items of the first n upstream inputs.
SubItems(n) ==
    Sum([i \in 1..n |-> IF Lister THEN source_datapipe.orig[i].items
                        ELSE source_datapipe.orig[i].chips], n)

\* C20: nothing is pulled before the first next() call of the first pass; in
\* an adapter that is not a flattening one, the primary upstream has handed
\* out no more items than the consumer has requested; a flattening adapter (Item-Lister,
\* XbatcherSlicer) takes its next input only when every sub-item of the inputs
\* before it has been yielded, and has taken at most one input per request
\* besides the inputs that had no sub-item.
C20_PullsOnDemand ==
    FirstPass =>
       /\ requested = 0 => \A n \in DOMAIN Upstreams :
                              Upstreams[n].pulls = 0 /\ Upstreams[n].items = <<>>
       /\ adapter \notin Flatteners =>
             /\ Primary.pulls <= requested
             /\ Len(Primary.items) <= requested
       /\ (adapter \in Flatteners /\ passes = 1) =>
             /\ source_datapipe.pulls = frame.taken
             /\ Len(source_datapipe.items) = frame.taken
             /\ frame.taken > 0 => Len(delivered) >= SubItems(frame.taken - 1)
             /\ frame.taken - Cardinality(Empties) <= requested

\* One request made the Item-Lister take two handles, the first one empty.
C20_Witness ==
    /\ Lister /\ FirstPass /\ requested = 1 /\ pc = "suspended"
    /\ source_datapipe.pulls = 2 /\ Len(delivered) = 1

(***************************************************************************)
(* RasterioRasterizer: transform and pairing.                              *)
(***************************************************************************)
Rasterio == adapter = "RasterioRasterizer"

\* C22 as stated: with no transform argument given, every raster yielded for
\* a rioxarray template was burned with the transform of that same template.
C22_OwnTemplateTransform ==
    (Rasterio /\ transform /= "Affine(given)") =>
       \A i \in DOMAIN delivered :
          delivered[i].type = "DataArray" =>
             delivered[i].transform = out.orig[delivered[i].of[1]].transform

\* The calls to rasterio.features.rasterize of the pass, in order.
Burns == SelectSeq(calls, LAMBDA c : c.fn = "rasterio.features.rasterize")

\* C23: RasterioRasterizer over N vectors and M templates reports the larger
\* of N and M as its length; a pass that runs to its end has yielded exactly
\* that many items; and with N = 1 and M >= 1 the k-th burn of a pass is of
\* the single vector into the k-th template, every yielded raster being the
\* burn of the vector into the template of its position.
C23_LengthIsMaxAndSoleVectorBroadcast ==
    (Rasterio /\ obj = "built") =>
       LET N == source_datapipe.len
           M == out.len
       IN /\ Length(adapter) \in {N, M}
          /\ Length(adapter) >= N /\ Length(adapter) >= M
          /\ pc = "finished" => Len(delivered) = Length(adapter)
          /\ Len(delivered) <= Length(adapter)
          /\ (N = 1 /\ M >= 1) =>
                /\ \A k \in DOMAIN Burns :
                      /\ k <= M
                      /\ Burns[k].canvas.id = out.orig[k].id
                      /\ Burns[k].arg.type /= "NoneType"
                      /\ Burns[k].arg.id = source_datapipe.orig[1].id
                /\ \A k \in DOMAIN delivered :
                      delivered[k].of = <<out.orig[k].id, source_datapipe.orig[1].id>>

\* C23 witness: a finished pass over one vector and two templates, which
\* yielded two rasters, both burned from the one vector.
C23_Witness ==
    /\ Rasterio /\ pc = "finished"
    /\ source_datapipe.len = 1 /\ out.len = 2
    /\ Len(delivered) = 2 /\ Len(Burns) = 2
    /\ delivered[1].of[2] = delivered[2].of[2]
    /\ delivered[1].of[1] /= delivered[2].of[1]

\* The lengths for which C27 allows no fill: several vectors and an explicit
\* template sequence of another length, or one vector and no template.
NoFillLengths ==
    LET N == source_datapipe.len
        M == out.len
    IN \/ N > 1 /\ M /= N /\ out.kind /= "none"
       \/ N = 1 /\ M = 0

\* C27 as stated: for those lengths every pair RasterioRasterizer forms is
\* of the next template and the next vector, both sequences advancing
\* together; neither slot holds a fill value.
C27_NoFilledPair ==
    (Rasterio /\ NoFillLengths /\ pc = "template") =>
       /\ frame.zip.out = frame.zip.source
       /\ frame._out = out.items[frame.zip.out]
       /\ frame._geoseries = source_datapipe.items[frame.zip.source]

(***************************************************************************)
(* GeoPandasRectangleClipper with and without assertions.                  *)
(***************************************************************************)

\* C28 as stated: whatever the setting of __debug__, each pair
\* GeoPandasRectangleClipper yields is the pair the same step yields with
\* assertions enabled: the try block with the assert executed raises
\* nothing, and the layer it leaves, clipped to the mask, is the one yielded.
C28_SamePairsWithoutAssertions ==
    Clip =>
       \A i \in DOMAIN delivered :
          LET raster == delivered[i][2]
              try == Clip_TryAssert(source_datapipe.orig[1], raster, TRUE)
          IN /\ try.exc = "-"
             /\ delivered[i][1] = clip(try.vector, raster)

(***************************************************************************)
(* DatashaderRasterizer: the raster of a step and the vector pass.         *)
(***************************************************************************)

SoleLayerBurned ==
    \A k \in DOMAIN calls :
       calls[k].fn \in BurnFns => calls[k].arg.id = vector_datapipe.orig[1].id

\* C24 as stated: with a single vector layer every canvas is paired with
\* that layer, and each pass iterates the vector datapipe once and pulls its
\* item once.
C24_VectorReadOncePerPass ==
    (DS /\ obj = "built" /\ vector_datapipe.len = 1) =>
       /\ SoleLayerBurned
       /\ vector_datapipe.iters <= passes
       /\ vector_datapipe.pulls <= passes

\* C24 amended: with a single vector layer every canvas is paired with that
\* layer, and each pass iterates the vector datapipe twice: list(...) reads
\* it to its end for the fill value, and zip_longest then iterates it again
\* and pulls its item a second time to form the first pair.
C24_VectorReadTwicePerPass ==
    (DS /\ obj = "built" /\ vector_datapipe.len = 1) =>
       /\ SoleLayerBurned
       /\ vector_datapipe.iters <= 2 * passes
       /\ vector_datapipe.pulls <= 2 * passes
       /\ passes = 1 =>
             /\ vector_datapipe.iters = IF pc \in {"created", "list"} THEN 0 ELSE 2
             /\ vector_datapipe.pulls =
                   IF pc = "created" THEN 0
                   ELSE IF pc = "list" THEN frame.listed
                   ELSE IF pc = "zip" /\ frame.zip.vector = 0 THEN 1
                   ELSE 2
             /\ pc \in AfterCanvasCrs => frame.zip.vector = 1

\* C24 witness: a finished first pass in which the one layer was burned on
\* the canvas, the vector datapipe iterated twice and its item pulled twice.
C24_Witness ==
    /\ DS /\ pc = "finished" /\ passes = 1 /\ Len(delivered) = 1
    /\ vector_datapipe.len = 1
    /\ vector_datapipe.iters = 2 /\ vector_datapipe.pulls = 2
    /\ \E k \in DOMAIN calls : calls[k].fn \in BurnFns

(***************************************************************************)
(* The flattening adapters: order of the sub-items.                        *)
(***************************************************************************)

\* The number of sub-items of the n-th upstream input.
Count(n) ==
    IF Lister THEN source_datapipe.orig[n].items ELSE source_datapipe.orig[n].chips

\* The sub-items of the first n inputs, each as <<input, position in the
\* enumeration of that input>>, grouped by input in input order.
RECURSIVE Grouped(_)
Grouped(n) ==
    IF n = 0 THEN <<>> ELSE Grouped(n - 1) \o [k \in 1..Count(n) |-> <<n, k>>]

\* The calls that start the windowing of an input.
Windowings == SelectSeq(calls, LAMBDA c : c.fn = "dataarray.batch.generator")

\* C25: what a flattening adapter has yielded in a pass is the beginning of
\* the sub-items of the inputs it has taken, grouped by input in input order
\* and, within an input, in the order of the enumeration; a finished pass
\* has yielded all of them.  XbatcherSlicer windows an unnamed array under
\* the placeholder name, and a named array or a dataset as supplied.
C25_SubItemsGroupedInInputOrder ==
    (adapter \in Flatteners /\ pc \notin {"none", "created"}) =>
       LET expected == Grouped(frame.taken)
       IN /\ Len(delivered) <= Len(expected)
          /\ \A j \in DOMAIN delivered :
                <<delivered[j].of[1], delivered[j].id>> = expected[j]
          /\ pc = "finished" =>
                /\ frame.taken = source_datapipe.len
                /\ Len(delivered) = Len(expected)
          /\ Slicer =>
                /\ \A j \in DOMAIN delivered :
                      LET x == source_datapipe.orig[delivered[j].of[1]]
                      IN /\ delivered[j].type = x.type
                         /\ delivered[j].name =
                               IF x.name = None THEN DATAARRAY_VARIABLE ELSE x.name
                /\ \A n \in DOMAIN Windowings :
                      LET x == source_datapipe.orig[n]
                          given == Windowings[n].arg
                      IN IF x.name = None
                         THEN /\ given.name = DATAARRAY_VARIABLE
                              /\ given.of = <<x.id>>
                         ELSE given = x

\* C25 witness: XbatcherSlicer has yielded the chip of an unnamed array,
\* under the placeholder name, and then the two chips of a dataset.
C25_Witness ==
    /\ Slicer /\ Len(delivered) = 3
    /\ source_datapipe.orig[1].name = None
    /\ delivered[1].name = DATAARRAY_VARIABLE
    /\ source_datapipe.orig[2].type = "xarray.Dataset"
    /\ delivered[2].of = <<2>> /\ delivered[2].id = 1
    /\ delivered[3].of = <<2>> /\ delivered[3].id = 2

\* Construction has failed with the error of the first len() call that
\* could not report a length, the vector datapipe being asked first.
FailedOnLength ==
    /\ obj = "failed"
    /\ ctor_error = IF ~vector_datapipe.sized THEN NoLength("vector_datapipe")
                    ELSE NoLength("source_datapipe")

\* Construction has opened no pass and pulled no item.
NothingPulled ==
    /\ passes = 0 /\ pc = "none"
    /\ source_datapipe.pulls = 0 /\ vector_datapipe.pulls = 0
    /\ source_datapipe.iters = 0 /\ vector_datapipe.iters = 0

\* C30 as stated: the two len() calls come before anything else in the
\* constructor of DatashaderRasterizer, so whenever an upstream reports no
\* length the construction has failed with that length error, with nothing
\* pulled and no instance.
C30_LengthQueriedFirst ==
    (DS /\ obj /= "new" /\ ~Sized) => FailedOnLength /\ NothingPulled

\* C30 amended: the constructor of DatashaderRasterizer tests for
\* spatialpandas first; with spatialpandas present it asks the vector
\* datapipe and then the canvas datapipe for their lengths before it compares
\* them, so an upstream that reports no length makes the construction fail
\* with that length error and not with ValueError; with spatialpandas
\* absent the failure is ModuleNotFoundError.  Either way nothing is pulled
\* and no instance exists.
C30_LengthQueriedAfterLibraryTest ==
    (DS /\ obj /= "new" /\ ~Sized) =>
       /\ IF "spatialpandas" \in missing
          THEN obj = "failed" /\ ctor_error = ModuleNotFoundError("spatialpandas")
          ELSE FailedOnLength
       /\ ctor_error.type /= "ValueError"
       /\ NothingPulled

\* C30 witness: one vector layer and one canvas, the canvas datapipe without
\* a length: construction failed with its TypeError.
C30_Witness ==
    /\ DS /\ obj = "failed" /\ "spatialpandas" \notin missing
    /\ vector_datapipe.sized /\ vector_datapipe.len = 1
    /\ ~source_datapipe.sized /\ source_datapipe.len = 1
    /\ ctor_error = NoLength("source_datapipe")

(***************************************************************************)
(* Iterators of others on an adapter's upstream.                           *)
(***************************************************************************)

\* The len() calls made on the Item-Lister while the pass now current was
\* in progress.
LensDuringPass == {j \in DOMAIN length : length[j].during = passes}

\* C29 as stated: a len() call made on the Item-Lister during a pass leaves
\* the pass as it would have been: it raises nothing, goes on yielding the
\* items of the handles in order, and when it ends it has yielded every item
\* of every handle.
C29_LenLeavesPassUndisturbed ==
    (Lister /\ LensDuringPass /= {}) =>
       /\ pc /= "raised" /\ error = NoError
       /\ \A j \in DOMAIN delivered :
             <<delivered[j].of[1], delivered[j].id>> = Grouped(frame.taken)[j]
       /\ pc = "finished" =>
             /\ frame.taken = source_datapipe.len
             /\ Len(delivered) = SubItems(source_datapipe.len)

\* C21 as stated: no upstream datapipe of an adapter instance is iterated by
\* another instance, and no pass of a RasterioRasterizer fails because of
\* an iterator another instance created.
C21_InstancesShareNoUpstream ==
    obj = "built" =>
       /\ \A n \in DOMAIN Upstreams : Upstreams[n].others = 0
       /\ Rasterio => error /= Invalidated("out")
====
